---- MODULE Spec2Model ----
(***************************************************************************)
(* Model of the Zuul query engine of cibyl: the REST facade                *)
(* (cibyl/sources/zuul/apis/rest.py), the hierarchy-aware jobs query       *)
(* (cibyl/sources/zuul/queries/composition/hierarchy.py) and the Zuul      *)
(* printer cascades (cibyl/outputs/cli/ci/systems/zuul/colored.py); of     *)
(* the source lookup (cibyl/sources/source.py), the filters of the         *)
(* openstack plugin (cibyl/plugins/openstack/sources/jenkins.py), the      *)
(* merge of partial views into the aggregation tree, the file              *)
(* interpreters (tripleo/insights/deployment.py) and the Git download      *)
(* (tripleo/insights/git.py) with its CLI downloader; of the YAML search   *)
(* of zuul.d (cibyl/sources/zuuld/tools/yaml.py), the system printers      *)
(* (colored.py, system/impls/jobs/serialized.py), the job information     *)
(* read from Jenkins job names (add_job_info_from_name) and the JSON       *)
(* validator factory (kernel/tools/json.py).                               *)
(*                                                                         *)
(* Every operation family has its own specification over the shared        *)
(* variables; the variables a family does not use stay at their idle       *)
(* value.                                                                  *)
(***************************************************************************)
EXTENDS Integers, Sequences, FiniteSets, TLC

VARIABLES
    \* --- ZuulSession.get -------------------------------------------------
    request,      \* the HTTP response handed back by the low-level session
    outcome,      \* what ZuulSession.get did with it
    \* --- ZuulVariantRESTClient.variables ---------------------------------
    zuul,         \* remote host: job name -> response of 'tenant/t/job/<name>'
    self,         \* the variant handle the call is made on
    recursive,    \* the argument of variables()
    stack,        \* activation records of the nested variables() calls
    pc,           \* "idle", "walk", "done" or "raised"
    result,       \* the mapping returned by the outermost call
    calls,        \* services asked through ZuulSession.get by the operation
    \* --- child listings of the REST facade -------------------------------
    host,         \* the JSON documents the remote host serves
    held,         \* the handle the caller holds
    listing,      \* what the last child listing returned
    op,           \* the last child listing, and whether it raised
    \* --- handle equality -------------------------------------------------
    handles,      \* three handles
    eq,           \* eq[i][j]: handles[i] == handles[j]
    \* --- HierarchyQuery.with_jobs_query ----------------------------------
    kwargs,       \* the 'jobs' argument: the value list of the filter
    query,        \* where the call is, and what it still has to visit
    tree,         \* what the delegate query put in the output
    \* --- ColoredZuulSystemPrinter.ProjectCascade -------------------------
    model,        \* the project, pipeline and job handed to _print_job
    printed,      \* the build ids _print_job put in its text, in order
    \* --- Source.get_source_method ----------------------------------------
    lookup,       \* the last get_source_method call and what came of it
    \* --- filter_models_by_name, filter_nodes --------------------------
    filtering,    \* the job being filtered, the user input, the verdicts
    \* --- merge of partial views (aggregation model) -------------------
    system,       \* the jobs of the aggregation tree, in insertion order
    deployment,   \* the deployment of the tree
    merged,       \* the subtree merged, the tree before and after it
    \* --- file interpreters of tripleo.insights, YAMLReader ------------
    interp,       \* the interpreter the constructor made, if it made one
    answer,       \* the last call, what it raised and what it returned
    \* --- GitDownload.download_as_yaml ---------------------------------
    download,     \* the call: its downloaders, those invoked, its result
    \* --- YAMLSearch.search --------------------------------------------
    search,       \* the call: the files found, the one at hand, the handles so far
    \* --- print_system of the colored Zuul and serialized jobs printers ---
    rendering,    \* the printer, its query type, the system printed, the entities in its text
    \* --- GitCLIDownloader.download_as_text ----------------------------
    cli,          \* the working directory and the downloads made on it so far
    \* --- Jenkins.add_job_info_from_name -------------------------------
    jobinfo,      \* the job before the call, the arguments, the job after it, the keys written
    \* --- JSONValidatorFactory.from_file, from_remote ------------------
    factory       \* the two caches of the factory and the calls made on it

httpVars == <<request, outcome, calls>>
walkVars == <<zuul, self, recursive, stack, pc, result>>
facadeVars == <<host, held, listing, op>>
eqVars == <<handles, eq>>
queryVars == <<kwargs, query, tree>>
printVars == <<model, printed>>
sourceVars == <<lookup>>
filterVars == <<filtering>>
mergeVars == <<system, deployment, merged>>
interpVars == <<interp, answer>>
downloadVars == <<download>>
searchVars == <<search>>
renderVars == <<rendering>>
cliVars == <<cli>>
jobInfoVars == <<jobinfo>>
factoryVars == <<factory>>

vars ==
    <<httpVars, walkVars, facadeVars, eqVars, queryVars, printVars,
      sourceVars, filterVars, mergeVars, interpVars, downloadVars,
      searchVars, renderVars, cliVars, jobInfoVars, factoryVars>>

\* What the operations of one family leave alone.
besideHttp ==
    <<walkVars, facadeVars, eqVars, queryVars, printVars, sourceVars,
      filterVars, mergeVars, interpVars, downloadVars, searchVars,
      renderVars, cliVars, jobInfoVars, factoryVars>>
besideWalk ==
    <<facadeVars, eqVars, queryVars, printVars, sourceVars, filterVars,
      mergeVars, interpVars, downloadVars, searchVars, renderVars, cliVars,
      jobInfoVars, factoryVars>>
besideFacade ==
    <<walkVars, eqVars, queryVars, printVars, sourceVars, filterVars,
      mergeVars, interpVars, downloadVars, searchVars, renderVars, cliVars,
      jobInfoVars, factoryVars>>
besideEq ==
    <<httpVars, walkVars, facadeVars, queryVars, printVars, sourceVars,
      filterVars, mergeVars, interpVars, downloadVars, searchVars,
      renderVars, cliVars, jobInfoVars, factoryVars>>
besideQuery ==
    <<self, recursive, stack, pc, result, facadeVars, eqVars, printVars,
      sourceVars, filterVars, mergeVars, interpVars, downloadVars,
      searchVars, renderVars, cliVars, jobInfoVars, factoryVars>>
besidePrint ==
    <<httpVars, walkVars, facadeVars, eqVars, queryVars, sourceVars,
      filterVars, mergeVars, interpVars, downloadVars, searchVars,
      renderVars, cliVars, jobInfoVars, factoryVars>>
besideSource ==
    <<httpVars, walkVars, facadeVars, eqVars, queryVars, printVars,
      filterVars, mergeVars, interpVars, downloadVars, searchVars,
      renderVars, cliVars, jobInfoVars, factoryVars>>
besideFilter ==
    <<httpVars, walkVars, facadeVars, eqVars, queryVars, printVars,
      sourceVars, mergeVars, interpVars, downloadVars, searchVars,
      renderVars, cliVars, jobInfoVars, factoryVars>>
besideMerge ==
    <<httpVars, walkVars, facadeVars, eqVars, queryVars, printVars,
      sourceVars, filterVars, interpVars, downloadVars, searchVars,
      renderVars, cliVars, jobInfoVars, factoryVars>>
besideInterp ==
    <<httpVars, walkVars, facadeVars, eqVars, queryVars, printVars,
      sourceVars, filterVars, mergeVars, downloadVars, searchVars,
      renderVars, cliVars, jobInfoVars, factoryVars>>
besideDownload ==
    <<httpVars, walkVars, facadeVars, eqVars, queryVars, printVars,
      sourceVars, filterVars, mergeVars, interpVars, searchVars, renderVars,
      cliVars, jobInfoVars, factoryVars>>
besideSearch ==
    <<httpVars, walkVars, facadeVars, eqVars, queryVars, printVars,
      sourceVars, filterVars, mergeVars, interpVars, downloadVars,
      renderVars, cliVars, jobInfoVars, factoryVars>>
besideRender ==
    <<httpVars, walkVars, facadeVars, eqVars, queryVars, printVars,
      sourceVars, filterVars, mergeVars, interpVars, downloadVars,
      searchVars, cliVars, jobInfoVars, factoryVars>>
besideCli ==
    <<httpVars, walkVars, facadeVars, eqVars, queryVars, printVars,
      sourceVars, filterVars, mergeVars, interpVars, downloadVars,
      searchVars, renderVars, jobInfoVars, factoryVars>>
besideJobInfo ==
    <<httpVars, walkVars, facadeVars, eqVars, queryVars, printVars,
      sourceVars, filterVars, mergeVars, interpVars, downloadVars,
      searchVars, renderVars, cliVars, factoryVars>>
besideFactory ==
    <<httpVars, walkVars, facadeVars, eqVars, queryVars, printVars,
      sourceVars, filterVars, mergeVars, interpVars, downloadVars,
      searchVars, renderVars, cliVars, jobInfoVars>>

----------------------------------------------------------------------------
(* Bounds *)

\* Cap on the facade calls of one walk (cyclic parent chains never end).
MaxCalls == 5

----------------------------------------------------------------------------
(* Mappings (python dicts) *)

EmptyMap == [k \in {} |-> 0]

Restrict(m, S) == [k \in S |-> m[k]]

\* dict.update(): the entries of b are written over those of a.
DictUpdate(a, b) ==
    [k \in (DOMAIN a) \cup (DOMAIN b) |-> IF k \in DOMAIN b THEN b[k] ELSE a[k]]

----------------------------------------------------------------------------
(* ZuulSession *)

\* requests.Response.raise_for_status(): HTTPError for 4xx and 5xx only.
RaisesHTTPError(code) == code >= 400 /\ code < 600

NoException == [raised |-> FALSE, type |-> "", msg |-> ""]

ErrorMessageWithout403(code) ==
    IF code = 401 THEN "unauthorized"
    ELSE IF code = 404 THEN "resource not found"
    ELSE "unknown error code, wait and try again"

ErrorMessage(code) ==
    IF code = 401 THEN "unauthorized"
    ELSE IF code = 403 THEN "insufficient privileges"
    ELSE IF code = 404 THEN "resource not found"
    ELSE "unknown error code, wait and try again"

CheckRequestStatus(req) ==
    IF RaisesHTTPError(req.status_code)
    THEN [raised |-> TRUE, type |-> "ZuulAPIError",
          msg |-> ErrorMessage(req.status_code)]
    ELSE NoException

\* requests.Response.json(): the decoded body, or JSONDecodeError.
ResponseJson(req) ==
    IF req.is_json
    THEN [exc |-> NoException, value |-> req.body]
    ELSE [exc |-> [raised |-> TRUE, type |-> "JSONDecodeError", msg |-> ""],
          value |-> <<>>]

SessionGet(req) ==
    LET status == CheckRequestStatus(req)
    IN  IF status.raised
        THEN [exc |-> status, value |-> <<>>]
        ELSE ResponseJson(req)

IdleRequest == [service |-> "", status_code |-> 0, is_json |-> FALSE, body |-> <<>>]
IdleOutcome == [exc |-> NoException, value |-> <<>>]

Services == {"info", "tenants", "tenant/t/jobs"}
StatusCodes == {100, 200, 201, 204, 301, 304, 400, 401, 403, 404, 405, 500, 503, 599}
Bodies == {<<>>, <<"a">>, <<"a", "b">>}

\* ZuulSession.get(service): one request on the low-level session, the
\* status check, then the decoding of the body.
Get(service, code, is_json, body) ==
    LET req == [service |-> service, status_code |-> code,
                is_json |-> is_json, body |-> body]
    IN  /\ request' = req
        /\ outcome' = SessionGet(req)
        /\ UNCHANGED <<calls, besideHttp>>

----------------------------------------------------------------------------
(* The remote host seen by ZuulVariantRESTClient.variables *)

Jobs == {"A", "B", "C"}
Keys == {"x", "y"}

\* The value job j gives to key k when one of its variants defines k.
JobVars ==
    [j \in Jobs |->
        IF j = "A" THEN [k \in Keys |-> IF k = "x" THEN 5 ELSE 4]
        ELSE IF j = "B" THEN [k \in Keys |-> IF k = "x" THEN 2 ELSE 3]
        ELSE [k \in Keys |-> IF k = "x" THEN 1 ELSE 6]]

\* Raw variants (the JSON objects of 'tenant/t/job/<name>') job j can have.
RawVariants(j) ==
    { [name |-> j, parent |-> p, variables |-> Restrict(JobVars[j], S)] :
        p \in Jobs \cup {""}, S \in SUBSET Keys }

\* The second variant of a job (another branch) defines other values.
BranchVariants(j) ==
    { [name |-> j, parent |-> p,
       variables |-> [k \in S |-> JobVars[j][k] + 10]] :
        p \in {"", "C"}, S \in {{}, {"x"}} }

NotFound == [status_code |-> 404, variants |-> <<>>]
Found(vs) == [status_code |-> 200, variants |-> vs]

\* Hosts where every job is unknown or has one variant.
PlainHosts ==
    { h \in [Jobs -> {NotFound} \cup
                     { Found(<<v>>) : v \in UNION { RawVariants(j) : j \in Jobs } }] :
        \A j \in Jobs :
            h[j].status_code = 200 => h[j].variants[1].name = j }

\* Hosts where job B has two variants.
BranchHosts ==
    { [j \in Jobs |->
          IF j = "A" THEN Found(<<a>>)
          ELSE IF j = "B" THEN Found(<<b1, b2>>)
          ELSE Found(<<c>>)] :
        a \in { v \in RawVariants("A") : v.parent = "B" },
        b1 \in { v \in RawVariants("B") : v.parent \in {"", "C"} },
        b2 \in BranchVariants("B"),
        c \in { v \in RawVariants("C") : v.parent = "" } }

\* Hosts where job A inherits from job B and the two variants of B name
\* different parents: job C on one branch, job A or B itself on the other.
\* Job C may be unknown.
CyclicBranchHosts ==
    { [j \in Jobs |->
          IF j = "A"
          THEN Found(<<[name |-> "A", parent |-> "B", variables |-> EmptyMap]>>)
          ELSE IF j = "B"
          THEN Found(<<[name |-> "B", parent |-> ps[1], variables |-> EmptyMap],
                       [name |-> "B", parent |-> ps[2], variables |-> EmptyMap]>>)
          ELSE c] :
        ps \in {<<"C", "A">>, <<"C", "B">>, <<"A", "C">>, <<"B", "C">>},
        c \in {NotFound,
               Found(<<[name |-> "C", parent |-> "", variables |-> EmptyMap]>>)} }

Hosts == PlainHosts \cup BranchHosts \cup CyclicBranchHosts

----------------------------------------------------------------------------
(* ZuulVariantRESTClient.variables *)

AsksParentOfAnyCall(raw, rec) == raw.parent # ""

\* get_parent_variables() asks for the parent only on a recursive call on
\* a variant that names a parent.
AsksParent(raw, rec) == rec /\ raw.parent # ""

\* A plausible slip: a visited-set guard, the parent is asked for only when
\* the walk has not asked for it yet.
ActivationUnlessVisited(raw, rec) ==
    [raw |-> raw,
     result |-> DictUpdate(EmptyMap, raw.variables),
     todo |-> <<>>,
     fetched |-> \/ ~(rec /\ raw.parent # "")
                 \/ \E i \in 1..Len(calls) :
                       calls[i] = "tenant/t/job/" \o raw.parent]

\* A fresh activation of variables(): result = {} and get_own_variables().
Activation(raw, rec) ==
    [raw |-> raw,
     result |-> DictUpdate(EmptyMap, raw.variables),
     todo |-> <<>>,
     fetched |-> ~AsksParent(raw, rec)]

\* ZuulJobRESTClient.variants() of the job called 'name'.
JobVariantsService(name) == "tenant/t/job/" \o name

JobVariantsRequest(name) ==
    [service |-> JobVariantsService(name),
     status_code |-> zuul[name].status_code,
     is_json |-> TRUE,
     body |-> zuul[name].variants]

Top == stack[Len(stack)]

SetTop(frame) == [stack EXCEPT ![Len(stack)] = frame]

\* variant.variables(recursive) is called on a handle.
Variables(j, i, rec) ==
    /\ pc = "idle"
    /\ zuul[j].status_code = 200
    /\ i \in 1..Len(zuul[j].variants)
    /\ self' = zuul[j].variants[i]
    /\ recursive' = rec
    /\ stack' = <<Activation(zuul[j].variants[i], rec)>>
    /\ pc' = "walk"
    /\ UNCHANGED <<httpVars, zuul, result, besideWalk>>

\* parent.variants(): the one facade call of an activation.
FetchParent ==
    /\ pc = "walk"
    /\ ~Top.fetched
    /\ Len(calls) < MaxCalls
    /\ LET req == JobVariantsRequest(Top.raw.parent)
           got == SessionGet(req)
       IN  /\ request' = req
           /\ outcome' = got
           /\ calls' = Append(calls, req.service)
           /\ IF got.exc.raised
              THEN /\ pc' = "raised"
                   /\ stack' = <<>>
              ELSE /\ pc' = "walk"
                   /\ stack' = SetTop([Top EXCEPT !.fetched = TRUE,
                                                  !.todo = got.value])
    /\ UNCHANGED <<zuul, self, recursive, result, besideWalk>>

\* The loop over the parent's variants calls variables() on the next one.
Descend ==
    /\ pc = "walk"
    /\ Top.fetched
    /\ Top.todo # <<>>
    /\ stack' = Append(SetTop([Top EXCEPT !.todo = Tail(Top.todo)]),
                       Activation(Head(Top.todo), recursive))
    /\ UNCHANGED <<httpVars, zuul, self, recursive, pc, result, besideWalk>>

\* An activation returns its result; the caller updates its own with it.
Return ==
    /\ pc = "walk"
    /\ Top.fetched
    /\ Top.todo = <<>>
    /\ IF Len(stack) = 1
       THEN /\ pc' = "done"
            /\ result' = Top.result
            /\ stack' = <<>>
       ELSE LET caller == stack[Len(stack) - 1]
            IN  /\ stack' = Append(SubSeq(stack, 1, Len(stack) - 2),
                                   [caller EXCEPT !.result =
                                       DictUpdate(caller.result, Top.result)])
                /\ UNCHANGED <<pc, result>>
    /\ UNCHANGED <<httpVars, zuul, self, recursive, besideWalk>>

IdleSelf == [name |-> "", parent |-> "", variables |-> EmptyMap]

----------------------------------------------------------------------------
(* Handles of the REST facade and their equality *)

NoHandle == [kind |-> "none"]

\* ZuulRESTClient
RootClient == [kind |-> "client"]

\* ZuulTenantRESTClient(session, tenant); 'copy' tells apart two objects
\* built for the same tenant by two tenants() calls.
TenantClient(session, raw, copy) ==
    [kind |-> "tenant", name |-> raw.name, parent |-> NoHandle,
     raw |-> raw, session |-> session, copy |-> copy]

\* ZuulProjectRESTClient(session, tenant, project)
ProjectClient(session, tenant, raw) ==
    [kind |-> "project", name |-> raw.name, parent |-> tenant,
     raw |-> raw, session |-> session]

\* ZuulPipelineRESTClient(session, project, pipeline)
PipelineClient(session, project, raw) ==
    [kind |-> "pipeline", name |-> raw.name, parent |-> project,
     raw |-> raw, session |-> session]

\* ZuulJobRESTClient(session, tenant, job)
JobClient(session, tenant, raw) ==
    [kind |-> "job", name |-> raw.name, parent |-> tenant,
     raw |-> raw, session |-> session]

\* ZuulVariantRESTClient(session, job, variant)
VariantClient(session, job, raw) ==
    [kind |-> "variant", name |-> raw.name, parent |-> job,
     raw |-> raw, session |-> session]

\* ZuulBuildRESTClient(session, job, build)
BuildClient(session, job, raw) ==
    [kind |-> "build", name |-> raw.uuid, parent |-> job,
     raw |-> raw, session |-> session]

\* The tenant client defines no __eq__: two tenants are equal when they
\* are the same object.
TenantEq(a, b) == a = b

JobEqByNameOnly(a, b) ==
    IF b.kind # "job" THEN FALSE
    ELSE a.name = b.name

ProjectEq(a, b) ==
    IF b.kind # "project" THEN FALSE
    ELSE IF a = b THEN TRUE
    ELSE TenantEq(a.parent, b.parent) /\ a.name = b.name

PipelineEq(a, b) ==
    IF b.kind # "pipeline" THEN FALSE
    ELSE IF a = b THEN TRUE
    ELSE ProjectEq(a.parent, b.parent) /\ a.name = b.name

JobEq(a, b) ==
    IF b.kind # "job" THEN FALSE
    ELSE IF a = b THEN TRUE
    ELSE TenantEq(a.parent, b.parent) /\ a.name = b.name

VariantEq(a, b) ==
    IF b.kind # "variant" THEN FALSE
    ELSE IF a = b THEN TRUE
    ELSE JobEq(a.parent, b.parent) /\ a.raw = b.raw

BuildEq(a, b) ==
    IF b.kind # "build" THEN FALSE
    ELSE IF a = b THEN TRUE
    ELSE JobEq(a.parent, b.parent) /\ a.raw = b.raw

\* a == b, dispatched on the class of a.
HandleEq(a, b) ==
    IF a.kind = "tenant" THEN TenantEq(a, b)
    ELSE IF a.kind = "project" THEN ProjectEq(a, b)
    ELSE IF a.kind = "pipeline" THEN PipelineEq(a, b)
    ELSE IF a.kind = "job" THEN JobEq(a, b)
    ELSE IF a.kind = "variant" THEN VariantEq(a, b)
    ELSE IF a.kind = "build" THEN BuildEq(a, b)
    ELSE a = b

\* The handles the comparisons are tried on.
Sessions == {"s1", "s2"}

SomeTenants ==
    { TenantClient("s1", [name |-> "t1"], 1),
      TenantClient("s1", [name |-> "t1"], 2),
      TenantClient("s2", [name |-> "t2"], 1) }

SomeProjects ==
    { ProjectClient("s1", t, [name |-> n, type |-> y]) :
        t \in SomeTenants, n \in {"p1", "p2"}, y \in {"config"} }
    \cup { ProjectClient("s1", t, [name |-> "p1", type |-> "untrusted"]) :
        t \in SomeTenants }

SomePipelines ==
    { PipelineClient(s, p, [name |-> n, jobs |-> <<>>]) :
        s \in {"s1"},
        p \in { q \in SomeProjects : q.name = "p1" /\ q.parent.name = "t1" },
        n \in {"check", "gate"} }
    \cup { PipelineClient("s2", p, [name |-> "check", jobs |-> <<>>]) :
        p \in { q \in SomeProjects : q.name = "p2" /\ q.parent.name = "t1" } }

SomeJobs ==
    { JobClient(s, t, [name |-> n, description |-> ""]) :
        s \in {"s1"}, t \in SomeTenants, n \in {"p1", "j2"} }
    \cup { JobClient("s2", t, [name |-> "p1", description |-> "d"]) :
        t \in SomeTenants }

SomeVariants ==
    { VariantClient("s1", j, [name |-> j.name, parent |-> "", branches |-> b]) :
        j \in { q \in SomeJobs : q.session = "s1" /\ q.name = "j2"
                                  /\ q.parent.copy = 1 /\ q.parent.name = "t1" },
        b \in {<<>>, <<"main">>} }

SomeHandles ==
    SomeTenants \cup SomeProjects \cup SomePipelines \cup SomeJobs \cup SomeVariants

\* a == b is evaluated for every pair of three handles.
Compare(a, b, c) ==
    /\ handles = <<>>
    /\ handles' = <<a, b, c>>
    /\ eq' = [i \in 1..3 |-> [j \in 1..3 |-> HandleEq(handles'[i], handles'[j])]]
    /\ UNCHANGED besideEq

----------------------------------------------------------------------------
(* Child listings of the REST facade *)

Session == "s1"

\* The jobs of a pipeline as the project document gives them: one entry per
\* job, each entry the list of the job's variants.
JobNames == {"j1", "j2"}

\* Bound on the variants of one job entry of a pipeline.
MaxEntryVariants == 2

\* Bound on the configs of a project document.
MaxConfigs == 2

JobEntry(n, count) == [i \in 1..count |-> [name |-> n, branch |-> i]]

PipelineJobEntries ==
    {<<>>}
    \cup { <<JobEntry(n, c)>> : n \in JobNames, c \in 1..MaxEntryVariants }
    \cup { <<JobEntry("j1", c), JobEntry("j2", d)>> :
              c \in 1..MaxEntryVariants, d \in 1..MaxEntryVariants }

PipelineNames == {"check", "gate"}

\* The pipelines one config of a project can list.
ConfigPipelines ==
    {<<>>, <<"check">>, <<"gate">>, <<"check", "gate">>}

RECURSIVE SeqsUpTo(_, _)
SeqsUpTo(S, n) ==
    IF n = 0 THEN {<<>>}
    ELSE LET shorter == SeqsUpTo(S, n - 1)
         IN  shorter \cup { Append(q, x) : q \in shorter, x \in S }

ProjectDocuments ==
    { [configs |-> [i \in 1..Len(cs) |->
                       [pipelines |-> [k \in 1..Len(cs[i]) |->
                                          [name |-> cs[i][k], jobs |-> entries]]]]] :
        cs \in SeqsUpTo(ConfigPipelines, MaxConfigs),
        entries \in PipelineJobEntries }

HostBuilds ==
    << [uuid |-> "b1", job_name |-> "j1", project |-> "p1", pipeline |-> "check"],
       [uuid |-> "b2", job_name |-> "j2", project |-> "p1", pipeline |-> "check"],
       [uuid |-> "b3", job_name |-> "j1", project |-> "p2", pipeline |-> "gate"] >>

FacadeHosts ==
    { [tenants |-> <<[name |-> "t1"], [name |-> "t2"]>>,
       projects |-> <<[name |-> "p1"], [name |-> "p2"]>>,
       project |-> doc,
       jobs |-> <<[name |-> "j1"], [name |-> "j2"]>>,
       variants |-> <<[name |-> "j", parent |-> "base", branches |-> <<"main">>]>>,
       builds |-> HostBuilds] :
        doc \in ProjectDocuments }

IdleHost ==
    [tenants |-> <<>>, projects |-> <<>>, project |-> [configs |-> <<>>],
     jobs |-> <<>>, variants |-> <<>>, builds |-> <<>>]

IdleOp == [name |-> "", raised |-> FALSE]

\* The status codes the host answers a facade call with.
AnswerCodes == {200, 401, 503}

AskedTwice(service) == <<service, service>>

\* The ZuulSession.get calls of a listing that asks the host for 'service'.
Asked(service) == <<service>>

\* self._session.get(service) inside the listing 'name'.
Ask(name, service, code, body) ==
    LET req == [service |-> service, status_code |-> code,
                is_json |-> TRUE, body |-> body]
        got == SessionGet(req)
    IN  /\ request' = req
        /\ outcome' = got
        /\ calls' = Asked(service)
        /\ op' = [name |-> name, raised |-> got.exc.raised]

\* What a listing returns: nothing when its call raised.
Returns(children) ==
    listing' = IF op'.raised THEN <<>> ELSE children

\* ZuulRESTClient.tenants()
Tenants(code) ==
    /\ held.kind = "client"
    /\ Ask("tenants", "tenants", code, host.tenants)
    /\ Returns([i \in 1..Len(outcome'.value) |->
                   TenantClient(Session, outcome'.value[i], 1)])
    /\ UNCHANGED <<host, held, besideFacade>>

\* ZuulTenantRESTClient.projects()
TenantProjects(code) ==
    /\ held.kind = "tenant"
    /\ Ask("tenant.projects", "tenant/" \o held.name \o "/projects",
           code, host.projects)
    /\ Returns([i \in 1..Len(outcome'.value) |->
                   ProjectClient(Session, held, outcome'.value[i])])
    /\ UNCHANGED <<host, held, besideFacade>>

\* ZuulTenantRESTClient.jobs()
TenantJobs(code) ==
    /\ held.kind = "tenant"
    /\ Ask("tenant.jobs", "tenant/" \o held.name \o "/jobs", code, host.jobs)
    /\ Returns([i \in 1..Len(outcome'.value) |->
                   JobClient(Session, held, outcome'.value[i])])
    /\ UNCHANGED <<host, held, besideFacade>>

\* ZuulTenantRESTClient.builds(): the decoded document itself.
TenantBuilds(code) ==
    /\ held.kind = "tenant"
    /\ Ask("tenant.builds", "tenant/" \o held.name \o "/builds",
           code, host.builds)
    /\ Returns(outcome'.value)
    /\ UNCHANGED <<host, held, besideFacade>>

\* The handles built from a project document: every pipeline of every config.
PipelinesOf(project, configs) ==
    LET RECURSIVE Walk(_)
        Walk(i) ==
            IF i > Len(configs) THEN <<>>
            ELSE [k \in 1..Len(configs[i].pipelines) |->
                     PipelineClient(Session, project, configs[i].pipelines[k])]
                 \o Walk(i + 1)
    IN  Walk(1)

\* ZuulProjectRESTClient.pipelines()
ProjectPipelines(code) ==
    /\ held.kind = "project"
    /\ Ask("project.pipelines",
           "tenant/" \o held.parent.name \o "/project/" \o held.raw.name,
           code, <<host.project>>)
    /\ Returns(PipelinesOf(held, outcome'.value[1].configs))
    /\ UNCHANGED <<host, held, besideFacade>>

\* The handles built from the job entries of a pipeline: one per variant of
\* every entry.
JobsOf(tenant, entries) ==
    LET RECURSIVE Walk(_)
        Walk(i) ==
            IF i > Len(entries) THEN <<>>
            ELSE [k \in 1..Len(entries[i]) |->
                     JobClient(Session, tenant, entries[i][k])]
                 \o Walk(i + 1)
    IN  Walk(1)

\* ZuulPipelineRESTClient.jobs(): read from the pipeline's own document.
PipelineJobs ==
    /\ held.kind = "pipeline"
    /\ calls' = <<>>
    /\ op' = [name |-> "pipeline.jobs", raised |-> FALSE]
    /\ listing' = JobsOf(held.parent.parent, held.raw.jobs)
    /\ UNCHANGED <<request, outcome, host, held, besideFacade>>

\* ZuulJobRESTClient.variants()
JobVariants(code) ==
    /\ held.kind = "job"
    /\ Ask("job.variants",
           "tenant/" \o held.parent.name \o "/job/" \o held.name,
           code, host.variants)
    /\ Returns([i \in 1..Len(outcome'.value) |->
                   VariantClient(Session, held, outcome'.value[i])])
    /\ UNCHANGED <<host, held, besideFacade>>

\* The host's answer to 'builds?job_name=<name>'.
BuildsOfJob(name) ==
    SelectSeq(host.builds, LAMBDA b : b.job_name = name)

\* ZuulJobRESTClient.builds()
JobBuilds(code) ==
    /\ held.kind = "job"
    /\ Ask("job.builds",
           "tenant/" \o held.parent.name \o "/builds?job_name=" \o held.name,
           code, BuildsOfJob(held.name))
    /\ Returns([i \in 1..Len(outcome'.value) |->
                   BuildClient(Session, held, outcome'.value[i])])
    /\ UNCHANGED <<host, held, besideFacade>>

\* A plausible slip: the build's own document handed out as its test.
TestsFromDocument(build) == <<build.raw>>

\* What ZuulBuildRESTClient.tests() returns: the empty list.
TestsOf(build) == <<>>

\* ZuulBuildRESTClient.tests(): no session use, no condition, no raise.
BuildTests ==
    /\ held.kind = "build"
    /\ calls' = <<>>
    /\ op' = [name |-> "build.tests", raised |-> FALSE]
    /\ listing' = TestsOf(held)
    /\ UNCHANGED <<request, outcome, host, held, besideFacade>>

ChildKinds == {"tenant", "project", "pipeline", "job", "build"}

\* The caller goes on with one of the handles of the last listing.
Take(i) ==
    /\ i \in 1..Len(listing)
    /\ op.name \in {"tenants", "tenant.projects", "tenant.jobs",
                    "project.pipelines", "pipeline.jobs", "job.builds"}
    /\ held' = listing[i]
    /\ UNCHANGED <<httpVars, host, listing, op, besideFacade>>

----------------------------------------------------------------------------
(* HierarchyQuery.with_jobs_query *)

\* Bound on the variants of the job the hierarchy starts from.
MaxJobVariants == 2

QueryVariant(j, p) == [name |-> j, parent |-> p, variables |-> EmptyMap]

\* Hosts whose parent references go from A to B to C: every job but A may be
\* unknown to the host.
QueryHosts ==
    { [j \in Jobs |-> IF j = "A" THEN Found(a) ELSE IF j = "B" THEN b ELSE c] :
        a \in { [i \in 1..Len(ps) |-> QueryVariant("A", ps[i])] :
                  ps \in SeqsUpTo({"", "B", "C"}, MaxJobVariants) \ {<<>>} },
        b \in {NotFound} \cup { Found(<<QueryVariant("B", p)>>) : p \in {"", "C"} },
        c \in {NotFound, Found(<<QueryVariant("C", "")>>)} }

\* The jobs the tenant lists: those the host knows, in name order.
KnownJobs ==
    SelectSeq(<<"A", "B", "C">>, LAMBDA j : zuul[j].status_code = 200)

Anchored(name) == "^" \o name \o "$"

\* The job names a pattern of the jobs filter selects.
Selects(pattern, name) ==
    \/ pattern = Anchored(name)
    \/ pattern = name
    \/ pattern = ".*"

\* The job names a value list selects: all of them when the list is empty.
Matched(value, names) ==
    SelectSeq(names, LAMBDA n :
        value = <<>> \/ \E i \in 1..Len(value) : Selects(value[i], n))

FilterValues ==
    { <<>>, <<"^A$">>, <<"^B$">>, <<"A">>, <<".*">>, <<"^C$", "^A$">> }

\* The value lists of another criterion of the call ('projects').
OtherValues == {<<>>, <<"^P1$">>}

IdleKwargs == [jobs |-> <<>>, projects |-> <<>>]

NoVariant == [name |-> "", parent |-> "", variables |-> EmptyMap]

IdleQueryState ==
    [pc |-> "idle", original |-> <<>>, given |-> IdleKwargs, jobs |-> <<>>,
     variants |-> <<>>, variant |-> NoVariant, level |-> NoVariant,
     delegate |-> ""]

\* The host's answer to a call, or the failure it is made to answer with.
Answer(service, code, body) ==
    SessionGet([service |-> service, status_code |-> code,
                is_json |-> TRUE, body |-> body])

\* A plausible slip: the error of a facade call is caught, the loops are
\* left and the query goes on to its delegate.
CaughtAndDelegated(call) == [call EXCEPT !.pc = "job", !.jobs = <<>>]

\* with_jobs_query has no 'try': the error of a facade call leaves it at
\* once, with the loops where they were.
Aborted(call) == [call EXCEPT !.pc = "raised"]

\* with_jobs_query(**kwargs) starts: perform_jobs_query(self.api, **kwargs)
\* lists the tenants, then the jobs of the tenant, and keeps those the jobs
\* filter selects.
WithJobsQuery(value, projects, code) ==
    /\ query.pc = "idle"
    /\ kwargs' = [jobs |-> value, projects |-> projects]
    /\ LET got == Answer("tenant/t/jobs", code, KnownJobs)
       IN  /\ request' = [service |-> "tenant/t/jobs", status_code |-> code,
                          is_json |-> TRUE, body |-> KnownJobs]
           /\ outcome' = got
           /\ calls' = <<"tenants", "tenant/t/jobs">>
           /\ query' = IF got.exc.raised
                       THEN Aborted([query EXCEPT !.original = value,
                                                  !.given = kwargs'])
                       ELSE [query EXCEPT !.pc = "job", !.original = value,
                                          !.given = kwargs',
                                          !.jobs = Matched(value, got.value)]
    /\ UNCHANGED <<zuul, tree, besideQuery>>

\* The outer loop takes the next job: perform_variants_query(job).
NextJob(code) ==
    /\ query.pc = "job"
    /\ query.jobs # <<>>
    /\ LET name == Head(query.jobs)
           req == [service |-> JobVariantsService(name), status_code |-> code,
                   is_json |-> TRUE, body |-> zuul[name].variants]
           got == SessionGet(req)
       IN  /\ request' = req
           /\ outcome' = got
           /\ calls' = Append(calls, req.service)
           /\ query' = IF got.exc.raised
                       THEN Aborted(query)
                       ELSE [query EXCEPT !.pc = "variant",
                                          !.jobs = Tail(query.jobs),
                                          !.variants = got.value]
    /\ UNCHANGED <<zuul, kwargs, tree, besideQuery>>

\* A plausible slip: the value list is rebuilt from the level's name.
ExpandReplacing(value, level, variant) ==
    IF level.name = variant.name THEN value
    ELSE <<Anchored(level.name)>>

\* The loop body of 'for level in crawler': the variant's own level is
\* skipped, any other level is added to the jobs filter.
ExpandUnanchored(value, level, variant) ==
    IF level.name = variant.name THEN value
    ELSE Append(value, level.name)

Expand(value, level, variant) ==
    IF level.name = variant.name THEN value
    ELSE Append(value, Anchored(level.name))

\* The inner loop takes the next variant; its crawler starts on the variant
\* itself.
NextVariant ==
    /\ query.pc = "variant"
    /\ IF query.variants = <<>>
       THEN /\ query' = [query EXCEPT !.pc = "job"]
            /\ UNCHANGED kwargs
       ELSE LET variant == Head(query.variants)
            IN  /\ query' = [query EXCEPT !.pc = "crawl",
                                          !.variants = Tail(query.variants),
                                          !.variant = variant,
                                          !.level = variant]
                /\ kwargs' = [kwargs EXCEPT
                                 !.jobs = Expand(@, variant, variant)]
    /\ UNCHANGED <<httpVars, zuul, tree, besideQuery>>

\* The crawler moves one level up: it asks for the variants of the parent
\* job of its level; a level without parent, or whose parent the host does
\* not know, ends the crawl.
Crawl(failure) ==
    /\ query.pc = "crawl"
    /\ IF query.level.parent = ""
       THEN /\ failure = 0
            /\ query' = [query EXCEPT !.pc = "variant"]
            /\ UNCHANGED <<httpVars, kwargs>>
       ELSE LET name == query.level.parent
                code == IF failure = 0 THEN zuul[name].status_code ELSE failure
                req == [service |-> JobVariantsService(name),
                        status_code |-> code, is_json |-> TRUE,
                        body |-> zuul[name].variants]
                got == SessionGet(req)
            IN  /\ request' = req
                /\ outcome' = got
                /\ calls' = Append(calls, req.service)
                /\ IF code = 404 \/ (~got.exc.raised /\ got.value = <<>>)
                   THEN /\ query' = [query EXCEPT !.pc = "variant"]
                        /\ UNCHANGED kwargs
                   ELSE IF got.exc.raised
                   THEN /\ query' = Aborted(query)
                        /\ UNCHANGED kwargs
                   ELSE /\ query' = [query EXCEPT !.level = got.value[1]]
                        /\ kwargs' = [kwargs EXCEPT
                                         !.jobs = Expand(@, got.value[1],
                                                         query.variant)]
    /\ UNCHANGED <<zuul, tree, besideQuery>>

\* return super().with_variants_query(**kwargs): the quick query lists the
\* jobs the (expanded) filter selects and the variants of each of them.
Delegate ==
    /\ query.pc = "job"
    /\ query.jobs = <<>>
    /\ LET names == Matched(kwargs.jobs, KnownJobs)
       IN  /\ tree' = [i \in 1..Len(names) |->
                          [name |-> names[i], variants |-> zuul[names[i]].variants]]
           /\ calls' = calls \o <<"tenants", "tenant/t/jobs">>
                             \o [i \in 1..Len(names) |-> JobVariantsService(names[i])]
    /\ query' = [query EXCEPT !.pc = "done", !.delegate = "with_variants_query"]
    /\ UNCHANGED <<request, outcome, zuul, kwargs, besideQuery>>

\* The failures a facade call of the query can be answered with (0: none).
Failures == {0, 401, 503}

----------------------------------------------------------------------------
(* ColoredZuulSystemPrinter.ProjectCascade._print_job *)

\* Bound on the builds of the printed job.
MaxBuilds == 3

QueryTypes ==
    {"NONE", "TENANTS", "PROJECTS", "PIPELINES", "JOBS", "VARIANTS", "BUILDS",
     "TESTS", "FEATURES", "FEATURES_JOBS"}

QueryRank(q) ==
    IF q = "NONE" THEN 0
    ELSE IF q = "TENANTS" THEN 1
    ELSE IF q = "PROJECTS" THEN 2
    ELSE IF q = "PIPELINES" THEN 3
    ELSE IF q = "JOBS" THEN 4
    ELSE IF q = "VARIANTS" THEN 5
    ELSE IF q = "BUILDS" THEN 6
    ELSE 7

\* q >= level for a level of the main chain: the two extension levels are
\* above NONE and comparable to nothing else of the chain.
QueryAtLeast(q, level) ==
    IF q \in {"FEATURES", "FEATURES_JOBS"}
    THEN level = "NONE"
    ELSE QueryRank(q) >= QueryRank(level)

ProjectNames == {"P1", "P2"}
TriggerNames == {"X", "Y"}

\* The builds a job model can hold: ids are unique, the project and the
\* pipeline of a build may be unset ("").
BuildLists ==
    { [i \in 1..Len(q) |->
          [build_id |-> i, project |-> q[i][1], pipeline |-> q[i][2]]] :
        q \in SeqsUpTo((ProjectNames \cup {""}) \X (TriggerNames \cup {""}),
                       MaxBuilds) }

WantedSamePipeline(build, project, pipeline) ==
    build.pipeline = pipeline.name

\* The two tests of the loop of _print_job: the build is of this project
\* and was triggered by this pipeline.
Wanted(build, project, pipeline) ==
    /\ ~(build.project # project.name)
    /\ ~(build.pipeline # pipeline.name)

IdleModel ==
    [query |-> "", project |-> [name |-> ""], pipeline |-> [name |-> ""],
     job |-> [name |-> "", builds |-> <<>>]]

\* _print_job(project, pipeline, job) of a cascade built for query q.
PrintJob(q, project, pipeline, job) ==
    /\ model' = [query |-> q, project |-> project, pipeline |-> pipeline,
                 job |-> job]
    /\ printed' =
          IF QueryAtLeast(q, "BUILDS")
          THEN LET kept == SelectSeq(job.builds,
                               LAMBDA b : Wanted(b, project, pipeline))
               IN  [i \in 1..Len(kept) |-> kept[i].build_id]
          ELSE <<>>
    /\ UNCHANGED besidePrint

----------------------------------------------------------------------------
(* Source.get_source_method *)

\* Longest list of sources a system is configured with.
MaxSources == 3

SystemNames == {"zuul_system", "jenkins_system"}
FuncNames == {"get_jobs", "get_builds", "get_tests"}

\* A source, as far as hasattr() sees it: the attributes it has.
SourceKinds == { [attrs |-> A] : A \in SUBSET {"get_jobs", "get_builds"} }

SourceLists == SeqsUpTo(SourceKinds, MaxSources)

HasAttr(source, func_name) == func_name \in source.attrs

\* A plausible slip: the loop stops at the first source that has the
\* attribute.
FirstValidSource(sources, func_name) ==
    LET valid == SelectSeq([i \in 1..Len(sources) |-> i],
                           LAMBDA i : HasAttr(sources[i], func_name))
    IN  IF valid = <<>> THEN <<>> ELSE <<valid[1]>>

\* valid_sources: the positions, in order, of the sources that have the
\* attribute.
ValidSources(sources, func_name) ==
    SelectSeq([i \in 1..Len(sources) |-> i],
              LAMBDA i : HasAttr(sources[i], func_name))

NoMethod == [source |-> 0, name |-> ""]

\* getattr(source, func_name): the method bound to that source.
GetAttr(i, func_name) == [source |-> i, name |-> func_name]

NoError == [type |-> "", args |-> <<>>]

IdleLookup ==
    [system_name |-> "", sources |-> <<>>, func_name |-> "",
     exc |-> NoError, method |-> NoMethod]

\* Source.get_source_method(system_name, sources, func_name)
GetSourceMethod(system_name, sources, func_name) ==
    LET valid_sources == ValidSources(sources, func_name)
        call == [system_name |-> system_name, sources |-> sources,
                 func_name |-> func_name]
    IN  /\ lookup' =
              IF Len(valid_sources) = 0
              THEN call @@ [exc |-> [type |-> "NoSupportedSourcesFound",
                                     args |-> <<system_name, func_name>>],
                            method |-> NoMethod]
              ELSE IF Len(valid_sources) > 1
              THEN call @@ [exc |-> [type |-> "TooManyValidSources",
                                     args |-> <<system_name>>],
                            method |-> NoMethod]
              ELSE call @@ [exc |-> NoError,
                            method |-> GetAttr(valid_sources[1], func_name)]
        /\ UNCHANGED besideSource

IdleSource == lookup = IdleLookup

----------------------------------------------------------------------------
(* filter_models_by_name and filter_nodes of the openstack plugin *)

\* How many times the filters are applied to one job.
MaxApplications == 3

ModelNames == {"a", "b", "c"}

\* A python dict whose keys are the names in S; the value is the model of
\* that name.
ModelsNamed(S) == [n \in S |-> [name |-> n]]

\* subset(dictionary, keys): the items of the dictionary whose key is one
\* of the keys.
Subset(dictionary, keys) ==
    Restrict(dictionary,
             { keys[i] : i \in 1..Len(keys) } \cap DOMAIN dictionary)

\* A plausible slip: the verdict taken from the field before it was cut.
VerdictOfUnfiltered(before, after) == before # EmptyMap

\* bool(job[field_to_check]) after the assignment.
Verdict(before, after) == after # EmptyMap

NodeNames == {"n1", "n2"}

\* The jobs handed to the filters: job['services'] and job['nodes'], every
\* node with its packages.
FilterJobs ==
    { [services |-> ModelsNamed(S),
       nodes |-> [n \in NodeNames |->
                    [packages |-> ModelsNamed(IF n = "n1" THEN P1 ELSE P2)]]] :
        S \in SUBSET {"a", "b"}, P1 \in SUBSET {"a", "b"},
        P2 \in SUBSET {"a", "b"} }

\* user_input.value: the names the user asked for.
UserInputs == SeqsUpTo(ModelNames, 2)

IdleFiltering ==
    [job |-> [services |-> EmptyMap, nodes |-> EmptyMap],
     original |-> [services |-> EmptyMap, nodes |-> EmptyMap],
     user_input |-> <<>>, log |-> <<>>]

Logged(name, job, verdict) ==
    Append(filtering.log, [filter |-> name, job |-> job, verdict |-> verdict])

\* filter_models_by_name(job, user_input, field_to_check)
FilterModelsByName(field_to_check) ==
    LET before == filtering.job[field_to_check]
        after == Subset(before, filtering.user_input)
        job == [filtering.job EXCEPT ![field_to_check] = after]
    IN  /\ Len(filtering.log) < MaxApplications
        /\ filtering' = [filtering EXCEPT
                            !.job = job,
                            !.log = Logged("filter_models_by_name", job,
                                           Verdict(before, after))]
        /\ UNCHANGED besideFilter

\* valid_nodes: the items left in the attribute, added up over the nodes.
RECURSIVE ValidNodes(_, _)
ValidNodes(nodes, field_to_check) ==
    IF DOMAIN nodes = {} THEN 0
    ELSE LET n == CHOOSE x \in DOMAIN nodes : TRUE
         IN  Cardinality(DOMAIN nodes[n][field_to_check])
             + ValidNodes(Restrict(nodes, DOMAIN nodes \ {n}), field_to_check)

\* filter_nodes(job, user_input, field_to_check)
FilterNodes(field_to_check) ==
    LET nodes == filtering.job.nodes
        cut == [n \in DOMAIN nodes |->
                  [nodes[n] EXCEPT ![field_to_check] =
                      Subset(nodes[n][field_to_check], filtering.user_input)]]
        valid_nodes == ValidNodes(cut, field_to_check)
        job == [filtering.job EXCEPT !.nodes = cut]
    IN  /\ Len(filtering.log) < MaxApplications
        /\ filtering' = [filtering EXCEPT
                            !.job = job,
                            !.log = Logged("filter_nodes", job, valid_nodes > 0)]
        /\ UNCHANGED besideFilter

IdleFilter == filtering = IdleFiltering

----------------------------------------------------------------------------
(* Merge of partial views into the aggregation tree *)

\* How many times one subtree is merged into a tree.
MaxDownloads == 3       \* downloads made on one working directory
MaxRequests == 4        \* calls made on one JSONValidatorFactory
MaxFiles == 3           \* files of the directory YAMLSearch looks in
MaxMerges == 2

\* A field nothing was written to.
Unset == ""

\* A plausible slip: the incoming value always written.
MergeValueIncoming(mine, other) == other

\* A field already set stays; an unset field takes the incoming value.
MergeValue(mine, other) == IF mine = Unset THEN other ELSE mine

\* Test.merge
MergeTest(mine, other) ==
    [mine EXCEPT !.result = MergeValue(@, other.result)]

\* Build.add_test: tests are unified by name.
AddTest(tests, test) ==
    IF \E i \in 1..Len(tests) : tests[i].name = test.name
    THEN [i \in 1..Len(tests) |->
             IF tests[i].name = test.name THEN MergeTest(tests[i], test)
             ELSE tests[i]]
    ELSE Append(tests, test)

RECURSIVE AddTests(_, _)
AddTests(tests, others) ==
    IF others = <<>> THEN tests
    ELSE AddTests(AddTest(tests, Head(others)), Tail(others))

\* Build.merge
MergeBuild(mine, other) ==
    [mine EXCEPT !.status = MergeValue(@, other.status),
                 !.tests = AddTests(@, other.tests)]

\* A plausible slip: the build added without looking for its id.
AddBuildAlways(builds, build) == Append(builds, build)

\* Job.add_build: builds are unified by id.
AddBuild(builds, build) ==
    IF \E i \in 1..Len(builds) : builds[i].build_id = build.build_id
    THEN [i \in 1..Len(builds) |->
             IF builds[i].build_id = build.build_id
             THEN MergeBuild(builds[i], build)
             ELSE builds[i]]
    ELSE Append(builds, build)

RECURSIVE AddBuilds(_, _)
AddBuilds(builds, others) ==
    IF others = <<>> THEN builds
    ELSE AddBuilds(AddBuild(builds, Head(others)), Tail(others))

\* Job.merge
MergeJob(mine, other) ==
    [mine EXCEPT !.url = MergeValue(@, other.url),
                 !.builds = AddBuilds(@, other.builds)]

\* System.add_job: jobs are unified by name.
AddJobTo(jobs, job) ==
    IF \E i \in 1..Len(jobs) : jobs[i].name = job.name
    THEN [i \in 1..Len(jobs) |->
             IF jobs[i].name = job.name THEN MergeJob(jobs[i], job)
             ELSE jobs[i]]
    ELSE Append(jobs, job)

\* Node.merge
MergeNode(mine, other) ==
    [mine EXCEPT !.role = MergeValue(@, other.role)]

\* Deployment.add_node
AddNode(nodes, node) ==
    IF \E i \in 1..Len(nodes) : nodes[i].name = node.name
    THEN [i \in 1..Len(nodes) |->
             IF nodes[i].name = node.name THEN MergeNode(nodes[i], node)
             ELSE nodes[i]]
    ELSE Append(nodes, node)

RECURSIVE AddNodes(_, _)
AddNodes(nodes, others) ==
    IF others = <<>> THEN nodes
    ELSE AddNodes(AddNode(nodes, Head(others)), Tail(others))

\* Service.merge: an empty configuration takes the incoming one.
MergeService(mine, other) ==
    [mine EXCEPT !.configuration =
                    IF DOMAIN @ = {} THEN other.configuration ELSE @]

\* Deployment.add_service
AddService(services, service) ==
    IF \E i \in 1..Len(services) : services[i].name = service.name
    THEN [i \in 1..Len(services) |->
             IF services[i].name = service.name
             THEN MergeService(services[i], service)
             ELSE services[i]]
    ELSE Append(services, service)

RECURSIVE AddServices(_, _)
AddServices(services, others) ==
    IF others = <<>> THEN services
    ELSE AddServices(AddService(services, Head(others)), Tail(others))

\* Deployment.merge
MergeDeployment(mine, other) ==
    [release |-> MergeValue(mine.release, other.release),
     ip_version |-> MergeValue(mine.ip_version, other.ip_version),
     nodes |-> AddNodes(mine.nodes, other.nodes),
     services |-> AddServices(mine.services, other.services)]

\* The partial views the handlers hand in.
TestViews ==
    {<<>>} \cup { <<[name |-> "t1", result |-> r]>> : r \in {Unset, "PASSED"} }

BuildViews ==
    { [build_id |-> "b1", status |-> st, tests |-> ts] :
        st \in {Unset, "SUCCESS"}, ts \in TestViews }
    \cup { [build_id |-> "b2", status |-> Unset, tests |-> <<>>] }

BuildViewLists ==
    {<<>>} \cup { <<b>> : b \in BuildViews }
    \cup { p \in BuildViews \X BuildViews : p[1].build_id # p[2].build_id }

JobViews ==
    { [name |-> "job1", url |-> u, builds |-> bs] :
        u \in {Unset, "u1"}, bs \in BuildViewLists }
    \cup { [name |-> "job2", url |-> Unset, builds |-> <<>>] }

\* The trees the merge starts from: jobs of different names.
JobTrees ==
    {<<>>} \cup { <<j>> : j \in JobViews }
    \cup { p \in JobViews \X JobViews : p[1].name # p[2].name }

DeploymentViews ==
    { [release |-> "17.0", ip_version |-> ip, nodes |-> ns, services |-> ss] :
        ip \in {Unset, "4"},
        ns \in {<<>>, <<[name |-> "controller-0", role |-> "controller"]>>},
        ss \in {<<>>} \cup
               { <<[name |-> "nova", configuration |-> c]>> :
                   c \in {EmptyMap, [option |-> "false"]} } }

NoSubtree == [kind |-> "none"]

Subtrees ==
    { [kind |-> "job", job |-> j] : j \in JobViews }
    \cup { [kind |-> "deployment", deployment |-> d] : d \in DeploymentViews }

IdleDeployment ==
    [release |-> Unset, ip_version |-> Unset, nodes |-> <<>>, services |-> <<>>]

NothingMerged(jobs, dep) ==
    [subtree |-> NoSubtree, count |-> 0,
     before |-> [system |-> jobs, deployment |-> dep],
     once |-> [system |-> jobs, deployment |-> dep]]

\* One merge of the subtree into the tree; the same subtree may be merged
\* again.
Merge(subtree) ==
    /\ merged.count < MaxMerges
    /\ merged.count > 0 => subtree = merged.subtree
    /\ system' = IF subtree.kind = "job" THEN AddJobTo(system, subtree.job)
                 ELSE system
    /\ deployment' = IF subtree.kind = "deployment"
                     THEN MergeDeployment(deployment, subtree.deployment)
                     ELSE deployment
    /\ merged' = [subtree |-> subtree,
                  count |-> merged.count + 1,
                  before |-> merged.before,
                  once |-> IF merged.count = 0
                           THEN [system |-> system', deployment |-> deployment']
                           ELSE merged.once]
    /\ UNCHANGED besideMerge

IdleMerge ==
    /\ system = <<>>
    /\ deployment = IdleDeployment
    /\ merged = NothingMerged(<<>>, IdleDeployment)

----------------------------------------------------------------------------
(* File interpreters of tripleo.insights.deployment; YAMLReader *)

\* Python's None.
None == "<None>"

\* The 'overrides' argument when it is left out.
Omitted == [given |-> FALSE, dict |-> EmptyMap]
Given(dict) == [given |-> TRUE, dict |-> dict]

\* The python dicts with keys out of K and values out of V.
DictsOver(K, V) == UNION { [S -> V] : S \in SUBSET K }

\* The files and the overrides of the four plain interpreters.
EnvironmentData == DictsOver({"environment_type"}, {"libvirt", "ovb"})
ReleaseData == DictsOver({"release"}, {"wallaby", "zed"})
FeatureSetData ==
    { a @@ b : a \in DictsOver({"overcloud_ipv6"}, BOOLEAN),
               b \in DictsOver({"composable_scenario"},
                               {"scenario001", "scenario002"}) }

TopologyMaps ==
    { [Compute |-> [scale |-> 3]],
      [Controller |-> [scale |-> 1], Compute |-> [scale |-> 2]],
      [Controller |-> [scale |-> 1], Compute |-> [scale |-> 3],
       CephStorage |-> [scale |-> 2], CellController |-> [scale |-> 1]] }

NodesData == DictsOver({"topology_map"}, TopologyMaps)

\* ScenarioInterpreter.Keys.BackEnds: the attributes of the dataclass, and
\* which of them are annotated.
BackEnds ==
    << [name |-> "powerflex", key |-> "CinderEnablePowerFlexBackend",
        annotated |-> TRUE],
       [name |-> "powermax", key |-> "CinderEnablePowermaxBackend",
        annotated |-> TRUE],
       [name |-> "powerstore", key |-> "CinderEnablePowerStoreBackend",
        annotated |-> TRUE],
       [name |-> "sc", key |-> "CinderEnableScBackend", annotated |-> TRUE],
       [name |-> "dell_emc_unity", key |-> "CinderEnableDellEMCUnityBackend",
        annotated |-> FALSE],
       [name |-> "dell_emc_vnx", key |-> "CinderEnableDellEMCVNXBackend",
        annotated |-> FALSE],
       [name |-> "dell_sc", key |-> "CinderEnableDellScBackend",
        annotated |-> FALSE],
       [name |-> "xtremio", key |-> "CinderEnableXtremioBackend",
        annotated |-> FALSE],
       [name |-> "netapp", key |-> "CinderEnableNetappBackend",
        annotated |-> FALSE],
       [name |-> "pure", key |-> "CinderEnablePureBackend",
        annotated |-> FALSE],
       [name |-> "iscsi", key |-> "CinderEnableIscsiBackend",
        annotated |-> FALSE],
       [name |-> "nfs", key |-> "CinderEnableNfsBackend", annotated |-> FALSE],
       [name |-> "rbd", key |-> "CinderEnableRbdBackend", annotated |-> FALSE] >>

\* ScenarioInterpreter.Mappings.cinder_backends
CinderBackends ==
    [k \in { BackEnds[i].key : i \in 1..Len(BackEnds) } |->
        CASE k = "CinderEnablePowerFlexBackend" -> "powerflex"
          [] k = "CinderEnablePowermaxBackend" -> "powermax"
          [] k = "CinderEnablePowerStoreBackend" -> "powerstore"
          [] k = "CinderEnableScBackend" -> "sc"
          [] k = "CinderEnableDellEMCUnityBackend" -> "dell-emc unity"
          [] k = "CinderEnableDellEMCVNXBackend" -> "dell-emc vnx"
          [] k = "CinderEnableDellScBackend" -> "dell sc"
          [] k = "CinderEnableXtremioBackend" -> "xtremio"
          [] k = "CinderEnableNetappBackend" -> "netapp"
          [] k = "CinderEnablePureBackend" -> "pure"
          [] k = "CinderEnableIscsiBackend" -> "iscsi"
          [] k = "CinderEnableNfsBackend" -> "nfs"
          [] k = "CinderEnableRbdBackend" -> "rbd"]

\* The scenario files: some backends present, each True or False.
ScenarioData ==
    DictsOver({"CinderEnablePowerFlexBackend", "CinderEnablePowermaxBackend",
               "CinderEnableIscsiBackend", "CinderEnableRbdBackend"}, BOOLEAN)

NoInterpreter == [kind |-> "none", data |-> EmptyMap, overrides |-> EmptyMap]

\* What a call came to; for the calls that validate, the instances handed
\* to is_valid and those the validator rejects.
Returned(name, value) ==
    [op |-> name, exc |-> NoError, value |-> value,
     args |-> <<>>, rejected |-> {}]

Raised(name, type, msg) ==
    [op |-> name, exc |-> [type |-> type, args |-> msg], value |-> None,
     args |-> <<>>, rejected |-> {}]

IdleAnswer == Returned("", None)

\* validator.is_valid(instance): the validator made from the schema rejects
\* some instances.
IsValid(rejected, instance) == instance \notin rejected

\* A plausible slip: the overrides are not validated.
ValidatedDataOnly(data, overrides) == <<data>>

\* The instances the constructor validates, in order.
Validated(data, overrides) == <<data, overrides>>

\* FileInterpreter.__init__(data, schema, overrides, validator_factory)
NewInterpreter(kind, data, overrides_arg, rejected) ==
    LET overrides == IF overrides_arg.given THEN overrides_arg.dict
                     ELSE EmptyMap
        checked == Validated(data, overrides)
        valid == \A i \in 1..Len(checked) : IsValid(rejected, checked[i])
    IN  /\ interp = NoInterpreter
        /\ rejected \subseteq {data, overrides}
        /\ interp' = IF valid
                     THEN [kind |-> kind, data |-> data, overrides |-> overrides]
                     ELSE interp
        /\ answer' =
              IF valid
              THEN [Returned("__init__", None) EXCEPT
                       !.args = <<data, overrides>>, !.rejected = rejected]
              ELSE [Raised("__init__", "IllegibleData",
                           <<"Data does not conform to its schema.">>) EXCEPT
                       !.args = <<data, overrides>>, !.rejected = rejected]
        /\ UNCHANGED besideInterp

\* A plausible slip: the file looked at before the overrides.
FromFileFirst(key, default) ==
    IF key \in DOMAIN interp.data THEN interp.data[key]
    ELSE IF key \in DOMAIN interp.overrides THEN interp.overrides[key]
    ELSE default

\* 'for provider in (self.overrides, self.data): if key in provider: return
\* provider[key]', and the default after the loop.
FromProviders(key, default) ==
    IF key \in DOMAIN interp.overrides THEN interp.overrides[key]
    ELSE IF key \in DOMAIN interp.data THEN interp.data[key]
    ELSE default

Getter(kind, name, value) ==
    /\ interp.kind = kind
    /\ answer' = Returned(name, value)
    /\ UNCHANGED <<interp, besideInterp>>

\* EnvironmentInterpreter.get_intra_type()
GetIntraType ==
    Getter("environment", "get_intra_type",
           FromProviders("environment_type", None))

\* FeatureSetInterpreter.is_ipv6()
IsIpv6 ==
    Getter("featureset", "is_ipv6", FromProviders("overcloud_ipv6", FALSE))

\* FeatureSetInterpreter.get_scenario()
GetScenario ==
    Getter("featureset", "get_scenario",
           FromProviders("composable_scenario", None))

\* ReleaseInterpreter.get_release_name()
GetReleaseName ==
    Getter("release", "get_release_name", FromProviders("release", None))

\* Topology(): the count of every node type left out of the map.
NoNodes == 0

\* NodesInterpreter._new_topology_from(topology_map)
NewTopologyFrom(topology_map) ==
    LET Scale(type) == IF type \in DOMAIN topology_map
                       THEN topology_map[type].scale ELSE NoNodes
    IN  [compute |-> Scale("Compute"), controller |-> Scale("Controller"),
         ceph |-> Scale("CephStorage"), cell |-> Scale("CellController")]

\* NodesInterpreter.get_topology()
GetTopology ==
    LET topology_map == FromProviders("topology_map", EmptyMap)
    IN  Getter("nodes", "get_topology",
               IF \E provider \in {interp.overrides, interp.data} :
                     "topology_map" \in DOMAIN provider
               THEN NewTopologyFrom(topology_map)
               ELSE None)

\* fields(type(keys)): the annotated attributes of the BackEnds dataclass.
BackEndFields == SelectSeq(BackEnds, LAMBDA b : b.annotated)

\* get_backends() of ScenarioInterpreter.get_cinder_backend: the keys of the
\* fields that are in the file.
GetBackends(data) ==
    LET present == SelectSeq(BackEndFields, LAMBDA b : b.key \in DOMAIN data)
    IN  [i \in 1..Len(present) |-> present[i].key]

\* ScenarioInterpreter.get_cinder_backend()
GetCinderBackend ==
    LET backends == GetBackends(interp.data)
    IN  /\ interp.kind = "scenario"
        /\ answer' =
              IF backends = <<>> THEN Returned("get_cinder_backend", None)
              ELSE IF Len(backends) # 1
              THEN Raised("get_cinder_backend", "ValueError", <<>>)
              ELSE Returned("get_cinder_backend", CinderBackends[backends[1]])
        /\ UNCHANGED <<interp, besideInterp>>

\* The documents a .zuul.d file parses to.
ZuulDDocuments == { <<>>, <<[job |-> "unit"]>>, <<[job |-> "unit"], [job |-> "lint"]>> }

\* YAMLReader.data: parse the file, validate it against the schema.
ReaderData(data, rejected) ==
    /\ rejected \subseteq {data}
    /\ answer' =
          IF ~IsValid(rejected, data)
          THEN [Raised("YAMLReader.data", "IllegibleData", <<>>) EXCEPT
                   !.args = <<data>>, !.rejected = rejected]
          ELSE [Returned("YAMLReader.data", data) EXCEPT
                   !.args = <<data>>, !.rejected = rejected]
    /\ UNCHANGED <<interp, besideInterp>>

IdleInterp ==
    /\ interp = NoInterpreter
    /\ answer = IdleAnswer

----------------------------------------------------------------------------
(* GitDownload.download_as_yaml *)

\* The repository URLs, by what is_git() and is_github() say of them.
URLs ==
    { [href |-> "https://github.com/org/repo.git",
       is_git |-> TRUE, is_github |-> TRUE],
      [href |-> "https://opendev.org/org/repo.git",
       is_git |-> TRUE, is_github |-> FALSE],
      [href |-> "https://github.com/org/repo/wiki",
       is_git |-> FALSE, is_github |-> TRUE],
      [href |-> "https://example.org/page",
       is_git |-> FALSE, is_github |-> FALSE] }

FileNames == {"featureset001.yml", "nodes.yml", "release.yml"}

\* The 'branch' argument: None for the default branch of the repository.
Branches == {None, "master", "stable/wallaby"}

\* A plausible slip: the Git CLI downloader is put before the GitHub one.
GetDownloadersCliFirst(url, branch) ==
    IF url.is_git
    THEN <<[type |-> "GitCLIDownloader", repository |-> url.href,
            branch |-> branch]>>
         \o (IF url.is_github
             THEN <<[type |-> "GitHubDownloader", repository |-> url.href,
                     branch |-> branch]>>
             ELSE <<>>)
    ELSE <<>>

\* GitDownloaderFetcher.get_downloaders_for(url, branch): most preferred
\* first.
GetDownloadersFor(url, branch) ==
    IF url.is_git
    THEN (IF url.is_github
          THEN <<[type |-> "GitHubDownloader", repository |-> url.href,
                  branch |-> branch]>>
          ELSE <<>>)
         \o <<[type |-> "GitCLIDownloader", repository |-> url.href,
                branch |-> branch]>>
    ELSE <<>>

\* What api.download_as_text(file) comes to: the text of the file, or a
\* DownloadError.
Texts == {"release: wallaby", "release: zed", "release: [wallaby"}

Downloads ==
    { [raised |-> FALSE, type |-> "", text |-> t, reason |-> ""] :
         t \in Texts }
    \cup { [raised |-> TRUE, type |-> "DownloadError", text |-> "",
             reason |-> r] :
             r \in {"file not found", "connection refused"} }

\* Repository.get_as_text(file) of the Git CLI: open() of a file that is not
\* in the clone raises FileNotFoundError, and GitCLIDownloader hands on
\* whatever its repository raises.
GetAsTextFailures ==
    { [raised |-> TRUE, type |-> "FileNotFoundError", text |-> "",
       reason |-> "No such file or directory"] }

\* What download_as_text(file) of one downloader comes to.
DownloadsOf(api) ==
    IF api.type = "GitCLIDownloader"
    THEN Downloads \cup GetAsTextFailures
    ELSE Downloads

\* yaml_parser.as_yaml(text): the document, or a YAMLError.
AsYaml(text) ==
    CASE text = "release: wallaby" ->
            [raised |-> FALSE, yaml |-> [release |-> "wallaby"]]
      [] text = "release: zed" ->
            [raised |-> FALSE, yaml |-> [release |-> "zed"]]
      [] OTHER -> [raised |-> TRUE, yaml |-> EmptyMap]

\* A plausible slip: the loop goes on to the next downloader whatever the
\* last one did.
GoesOnAfterAny(got) == TRUE

\* The loop goes on to the next downloader after a DownloadError only.
GoesOn(got) == got.type = "DownloadError"

DownloadError(msg) == [type |-> "DownloadError", args |-> <<msg>>]

IdleDownload ==
    [pc |-> "idle", repo |-> "", file |-> "", branch |-> None,
     apis |-> <<>>, pos |-> 0, invoked |-> <<>>, exc |-> NoError,
     value |-> EmptyMap]

\* download_as_yaml(repo, file): _get_apis_for(repo, branch), up to the
\* first downloader.
DownloadAsYaml(repo, file, branch) ==
    LET apis == GetDownloadersFor(repo, branch)
        call == [IdleDownload EXCEPT !.repo = repo.href, !.file = file,
                                     !.branch = branch, !.apis = apis]
    IN  /\ download.pc = "idle"
        /\ download' =
              IF apis = <<>>
              THEN [call EXCEPT !.pc = "done",
                                !.exc = DownloadError("No API available")]
              ELSE [call EXCEPT !.pc = "loop", !.pos = 1]
        /\ UNCHANGED besideDownload

\* One turn of the loop: api.download_as_text(file) of the next downloader
\* and what follows it, to the next downloader or to the end of the call.
TryApi(got) ==
    LET api == download.apis[download.pos]
        tried == [download EXCEPT
                     !.invoked = Append(@, [api |-> api, got |-> got])]
        parsed == AsYaml(got.text)
    IN  /\ download.pc = "loop"
        /\ got \in DownloadsOf(api)
        /\ download' =
              IF GoesOn(got)
              THEN IF download.pos < Len(download.apis)
                   THEN [tried EXCEPT !.pos = @ + 1]
                   ELSE [tried EXCEPT
                            !.pc = "done",
                            !.exc = DownloadError("All APIs failed")]
              ELSE IF got.raised
              THEN \* neither 'except' clause takes it: it leaves the call
                   [tried EXCEPT
                       !.pc = "done",
                       !.exc = [type |-> got.type, args |-> <<got.reason>>]]
              ELSE IF parsed.raised
                   THEN [tried EXCEPT
                            !.pc = "done",
                            !.exc = DownloadError("Failed to parse YAML file")]
                   ELSE [tried EXCEPT !.pc = "done", !.value = parsed.yaml]
        /\ UNCHANGED besideDownload

IdleDownloadState == download = IdleDownload

----------------------------------------------------------------------------
(* YAMLSearch.search *)

\* The files of the directory, by their path from its root.
Paths == {"zuul.yaml", "subdir/jobs.yml", "README.txt", "subdir/zuul.yaml"}

Extension(path) ==
    CASE path = "zuul.yaml" -> ".yaml"
      [] path = "subdir/jobs.yml" -> ".yml"
      [] path = "subdir/zuul.yaml" -> ".yaml"
      [] OTHER -> ".txt"

\* A file, and whether its text satisfies the Zuul.D schema.
Files == [path : Paths, meets_schema : BOOLEAN]

\* The directories: their files in the order the file search walks them.
Directories ==
    { d \in SeqsUpTo(Files, MaxFiles) :
        \A i, j \in 1..Len(d) : i # j => d[i].path # d[j].path }

DEFAULT_YAML_EXTENSIONS == {".yml", ".yaml"}

\* _search_for_yamls_at(path): the recursive search, by extension.
SearchForYamlsAt(dir) ==
    SelectSeq(dir, LAMBDA f : Extension(f.path) \in DEFAULT_YAML_EXTENSIONS)

\* ZuulDFileFactory.from_file(file): the handle, or the YAMLError of a file
\* that does not meet the schema.
FromFile(file) ==
    IF file.meets_schema
    THEN [raised |-> FALSE, zuuld |-> [type |-> "ZuulDFile",
                                       file |-> file.path]]
    ELSE [raised |-> TRUE, zuuld |-> [type |-> "YAMLError",
                                      file |-> file.path]]

NoSearch ==
    [pc |-> "idle", path |-> <<>>, finds |-> <<>>, pos |-> 0,
     result |-> <<>>, exc |-> NoError]

\* A plausible slip: the YAMLError of one file ends the search.
AbortedOnYAMLError(call) ==
    [call EXCEPT !.pc = "done", !.result = <<>>,
                 !.exc = [type |-> "YAMLError", args |-> <<>>]]

\* 'except YAMLError': a debug line, and the loop goes on.
Ignored(call) == call

\* search(path): the files to visit.
Search(dir) ==
    LET finds == SearchForYamlsAt(dir)
    IN  /\ search.pc = "idle"
        /\ search' = [NoSearch EXCEPT
                         !.pc = IF finds = <<>> THEN "done" ELSE "loop",
                         !.path = dir, !.finds = finds,
                         !.pos = IF finds = <<>> THEN 0 ELSE 1]
        /\ UNCHANGED besideSearch

\* One turn of the loop of search().
Visit ==
    LET made == FromFile(search.finds[search.pos])
        after == IF made.raised
                 THEN Ignored(search)
                 ELSE [search EXCEPT !.result = Append(@, made.zuuld)]
    IN  /\ search.pc = "loop"
        /\ search' =
              IF after.pc # "loop" THEN after
              ELSE IF search.pos < Len(search.finds)
                   THEN [after EXCEPT !.pos = @ + 1]
                   ELSE [after EXCEPT !.pc = "done"]
        /\ UNCHANGED besideSearch

IdleSearch == search = NoSearch

----------------------------------------------------------------------------
(* ColoredZuulSystemPrinter.print_system,
   SerializedJobsSystemPrinter.print_system *)

\* The model trees handed to the printers: at most one child of each kind,
\* populated down to any level.
TestLists == {<<>>, <<[name |-> "test_1"]>>}

BuildsOfTree ==
    {<<>>} \cup { <<[build_id |-> "b1", project |-> "P1", pipeline |-> "X",
                     tests |-> t]>> : t \in TestLists }

JobsOfTree ==
    {<<>>} \cup { <<[name |-> "job_1", variants |-> v, builds |-> b]>> :
                    v \in {<<>>, <<[parent |-> "base"]>>},
                    b \in BuildsOfTree }

PipelinesOfTree ==
    {<<>>} \cup { <<[name |-> "X", jobs |-> j]>> : j \in JobsOfTree }

ProjectsOfTree ==
    {<<>>} \cup { <<[name |-> "P1", pipelines |-> p]>> :
                    p \in PipelinesOfTree }

TenantsOfTree ==
    {<<>>} \cup { <<[name |-> "tenant_1", projects |-> p, jobs |-> j]>> :
                    p \in ProjectsOfTree, j \in JobsOfTree }

\* A Zuul system has tenants; a jobs system (Jenkins) has jobs and no
\* 'tenants' attribute.
ZuulSystems == { [type |-> "zuul", tenants |-> t] : t \in TenantsOfTree }
JobsSystems == { [type |-> "jenkins", jobs |-> j] : j \in JobsOfTree }

\* One entity in the text of a printer: its level and its name.
Entity(level, name) == [level |-> level, name |-> name]

RECURSIVE JoinAll(_)
JoinAll(texts) ==
    IF texts = <<>> THEN <<>> ELSE Head(texts) \o JoinAll(Tail(texts))

\* ProjectCascade._print_build
CascadePrintBuild(build) == <<Entity("BUILDS", build.build_id)>>

\* ProjectCascade._print_job
CascadePrintJob(q, project, pipeline, job) ==
    <<Entity("JOBS", job.name)>>
    \o (IF QueryAtLeast(q, "BUILDS")
        THEN JoinAll([i \in 1..Len(job.builds) |->
                        IF Wanted(job.builds[i], project, pipeline)
                        THEN CascadePrintBuild(job.builds[i])
                        ELSE <<>>])
        ELSE <<>>)

\* ProjectCascade._print_pipeline
PrintPipeline(q, project, pipeline) ==
    <<Entity("PIPELINES", pipeline.name)>>
    \o (IF QueryAtLeast(q, "JOBS")
        THEN JoinAll([i \in 1..Len(pipeline.jobs) |->
                        CascadePrintJob(q, project, pipeline,
                                        pipeline.jobs[i])])
        ELSE <<>>)

\* ProjectCascade.print_project
PrintProject(q, project) ==
    <<Entity("PROJECTS", project.name)>>
    \o (IF QueryAtLeast(q, "PIPELINES")
        THEN JoinAll([i \in 1..Len(project.pipelines) |->
                        PrintPipeline(q, project, project.pipelines[i])])
        ELSE <<>>)

\* JobCascade._print_variant
PrintVariant(variant) == <<Entity("VARIANTS", variant.parent)>>

\* JobCascade._print_build
JobPrintBuild(build) == <<Entity("BUILDS", build.build_id)>>

\* JobCascade.print_job: the variants and the builds the job holds are
\* printed whatever the query type of the cascade is.
JobPrintJob(q, job) ==
    <<Entity("JOBS", job.name)>>
    \o JoinAll([i \in 1..Len(job.variants) |->
                   PrintVariant(job.variants[i])])
    \o JoinAll([i \in 1..Len(job.builds) |->
                   JobPrintBuild(job.builds[i])])

\* ColoredZuulSystemPrinter._print_tenant
PrintTenant(q, tenant) ==
    <<Entity("TENANTS", tenant.name)>>
    \o (IF QueryAtLeast(q, "PROJECTS")
        THEN JoinAll([i \in 1..Len(tenant.projects) |->
                        PrintProject(q, tenant.projects[i])])
             \o (IF QueryAtLeast(q, "JOBS")
                 THEN JoinAll([i \in 1..Len(tenant.jobs) |->
                                 JobPrintJob(q, tenant.jobs[i])])
                 ELSE <<>>)
        ELSE <<>>)

\* ColoredZuulSystemPrinter.print_system: the entities of its text.
ColoredPrintSystem(q, sys) ==
    IF QueryAtLeast(q, "TENANTS") /\ sys.type = "zuul"
    THEN JoinAll([i \in 1..Len(sys.tenants) |->
                    PrintTenant(q, sys.tenants[i])])
    ELSE <<>>

\* SerializedJobsSystemPrinter.print_test
PrintTest(test) == <<Entity("TESTS", test.name)>>

\* SerializedJobsSystemPrinter.print_build: the tests of the build are
\* always in the document.
SerializedPrintBuild(build) ==
    <<Entity("BUILDS", build.build_id)>>
    \o JoinAll([i \in 1..Len(build.tests) |-> PrintTest(build.tests[i])])

\* SerializedJobsSystemPrinter.print_job
SerializedPrintJob(q, job) ==
    <<Entity("JOBS", job.name)>>
    \o (IF q \in {"FEATURES_JOBS", "FEATURES"}
        THEN <<>>
        ELSE IF QueryAtLeast(q, "BUILDS")
        THEN JoinAll([i \in 1..Len(job.builds) |->
                        SerializedPrintBuild(job.builds[i])])
        ELSE <<>>)

\* SerializedJobsSystemPrinter.print_system: the entities of its document.
SerializedPrintSystem(q, sys) ==
    IF q # "NONE"
    THEN JoinAll([i \in 1..Len(sys.jobs) |->
                    SerializedPrintJob(q, sys.jobs[i])])
    ELSE <<>>

NothingRendered ==
    [printer |-> "", query |-> "NONE", system |-> [type |-> ""],
     output |-> <<>>]

\* ColoredZuulSystemPrinter(query).print_system(system)
ColoredPrint(q, sys) ==
    /\ rendering = NothingRendered
    /\ rendering' = [printer |-> "ColoredZuulSystemPrinter", query |-> q,
                     system |-> sys, output |-> ColoredPrintSystem(q, sys)]
    /\ UNCHANGED besideRender

\* SerializedJobsSystemPrinter(query).print_system(system)
SerializedPrint(q, sys) ==
    /\ rendering = NothingRendered
    /\ rendering' = [printer |-> "SerializedJobsSystemPrinter", query |-> q,
                     system |-> sys,
                     output |-> SerializedPrintSystem(q, sys)]
    /\ UNCHANGED besideRender

IdleRender == rendering = NothingRendered

----------------------------------------------------------------------------
(* GitCLIDownloader.download_as_text *)

\* The working directory: whether it exists and what it holds ("" when it
\* is empty, the URL of the repository cloned in it, or "junk" for what a
\* clone that failed half-way left behind).
NoDir == [exists |-> FALSE, holds |-> ""]
EmptyDir == [exists |-> TRUE, holds |-> ""]

Repositories ==
    {"https://opendev.org/org/repo.git", "https://github.com/org/other.git"}

\* What api.clone can come to: the repository, or an error that leaves the
\* directory empty or with a part of the clone in it.
CloneOutcomes == {"cloned", "failed", "failed half-way"}

\* working_dir.mkdir(recursive=True) when the directory does not exist.
Mkdir(dir) == IF ~dir.exists THEN EmptyDir ELSE dir

IsEmpty(dir) == dir.holds = ""

\* A plausible slip: the repository is cloned on every download.
CloneAlways(dir) == <<"clone">>

\* _get_repo(), once the directory exists: the API calls it makes.
GetRepoCalls(dir) == IF IsEmpty(dir) THEN <<"clone">> ELSE <<"open">>

\* api.clone(repository, working_dir): the directory afterwards.
Clone(dir, repository, cloning) ==
    CASE cloning = "cloned" -> [dir EXCEPT !.holds = repository]
      [] cloning = "failed half-way" -> [dir EXCEPT !.holds = "junk"]
      [] OTHER -> dir

\* api.open(working_dir) fails on a directory that holds no repository.
Opens(dir) == dir.holds \in Repositories

NoDownloads == [dir |-> NoDir, log |-> <<>>]

\* download_as_text(file) of a downloader for 'repository' on the working
\* directory: _get_repo(), then the checkout and the read of the file.
DownloadAsText(repository, cloning) ==
    LET ready == Mkdir(cli.dir)
        api == GetRepoCalls(ready)
        after == IF api[1] = "clone"
                 THEN Clone(ready, repository, cloning)
                 ELSE ready
        got == IF api[1] = "clone" THEN cloning = "cloned" ELSE Opens(ready)
    IN  /\ Len(cli.log) < MaxDownloads
        /\ cli' = [dir |-> after,
                   log |-> Append(cli.log,
                              [repository |-> repository,
                               created |-> ~cli.dir.exists,
                               empty |-> IsEmpty(ready),
                               api |-> api,
                               got_repo |-> got])]
        /\ UNCHANGED besideCli

IdleCli == cli = NoDownloads

----------------------------------------------------------------------------
(* Jenkins.add_job_info_from_name of the openstack plugin *)

\* The deployment properties add_job_info_from_name can fill in.
NameProperties ==
    {"topology", "release", "infra_type", "network_backend",
     "storage_backend", "ip_version", "dvr", "tls_everywhere"}

NodeArguments == {"nodes", "controllers", "computes", "packages", "containers"}

ArgumentNames == NameProperties \cup NodeArguments \cup {"spec"}

\* The arguments of a call: up to two of them.
ArgumentSets == { K \in SUBSET ArgumentNames : Cardinality(K) <= 2 }

PlainName == "periodic-job"
VirtName == "DFG-network-virt-job"
FullName == "DFG-compute-17.1_director-3cont_2comp-ipv4-geneve-ceph-dvr-TLS"

JenkinsJobNames == {PlainName, VirtName, FullName}

\* detect_job_info_regex(job_name, pattern) for the pattern of a property:
\* what the name tells, "" when it tells nothing.
DetectJobInfoRegex(job_name, property) ==
    IF job_name # FullName THEN ""
    ELSE CASE property = "topology" -> "3cont_2comp"
           [] property = "release" -> "17.1"
           [] property = "infra_type" -> ""
           [] property = "network_backend" -> "geneve"
           [] property = "storage_backend" -> "ceph"
           [] property = "ip_version" -> "4"
           [] property = "dvr" -> "dvr"
           [] OTHER -> ""

\* The value each block of add_job_info_from_name writes for a property.
FromName(job_name, property) ==
    LET found == DetectJobInfoRegex(job_name, property)
    IN  CASE property = "topology" ->
               IF found # "" THEN "compute:2,controller:3" ELSE ""
          [] property = "infra_type" ->
               IF found = "" /\ job_name \in {VirtName} THEN "virt" ELSE found
          [] property = "ip_version" ->
               IF found = "" THEN "unknown" ELSE found
          [] property = "dvr" ->
               IF found = "" THEN "" ELSE IF found = "dvr" THEN "True"
                                                            ELSE "False"
          [] property = "tls_everywhere" ->
               IF job_name = FullName THEN "True" ELSE ""
          [] OTHER -> found

\* should_query_for_nodes_topology(**kwargs): <<query_nodes, query_topology>>
ShouldQueryForNodesTopology(args) ==
    LET spec == "spec" \in args
        query_nodes == args \cap NodeArguments # {}
    IN  <<query_nodes, "topology" \in args \/ spec \/ query_nodes>>

\* A plausible slip: the value of the artifacts is not looked at.
MissingWhatever(job, property) == TRUE

\* '"x" not in job or not job["x"]', 'not bool(job.get("x", ""))'
Missing(job, property) ==
    property \notin DOMAIN job \/ job[property] = ""

\* The second half of the test of each block.
AskedFor(property, args) ==
    IF property = "topology"
    THEN ShouldQueryForNodesTopology(args)[2]
    ELSE property \in args \/ "spec" \in args

\* The keys the call assigns.
WrittenKeys(job, args) ==
    { q \in NameProperties : Missing(job, q) /\ AskedFor(q, args) }

\* The jobs handed to the call: a name, and for each property a value of
\* the artifacts, an empty value or no key at all. Five of the properties
\* are in the same case.
PropertyCases == {"absent", "empty", "set"}

JobWith(name, cases) ==
    [q \in {"name"} \cup { r \in NameProperties : cases[r] # "absent" } |->
        IF q = "name" THEN name
        ELSE IF cases[q] = "empty" THEN "" ELSE "from artifacts"]

JobsFromArtifacts ==
    { JobWith(name, [q \in NameProperties |->
                        IF q = "topology" THEN c[1]
                        ELSE IF q = "dvr" THEN c[2] ELSE c[3]]) :
        name \in JenkinsJobNames,
        c \in PropertyCases \X PropertyCases \X PropertyCases }

NoJobInfo ==
    [called |-> FALSE, before |-> [q \in {"name"} |-> PlainName],
     kwargs |-> {}, after |-> [q \in {"name"} |-> PlainName],
     written |-> {}]

\* add_job_info_from_name(job, **kwargs)
AddJobInfoFromName ==
    LET job == jobinfo.before
        keys == WrittenKeys(job, jobinfo.kwargs)
    IN  /\ ~jobinfo.called
        /\ jobinfo' =
              [jobinfo EXCEPT
                  !.called = TRUE,
                  !.written = keys,
                  !.after = [q \in DOMAIN job \cup keys |->
                                IF q \in keys THEN FromName(job["name"], q)
                                ELSE job[q]]]
        /\ UNCHANGED besideJobInfo

IdleJobInfo == jobinfo = NoJobInfo

----------------------------------------------------------------------------
(* JSONValidatorFactory.from_file, from_remote *)

\* The keys of the caches: paths for from_file, URLs for from_remote. The
\* same text can be asked for as a file and as a URL.
SchemaKeys == {"schemas/zuuld.json", "schemas/other.json"}

\* What loading a schema comes to: a validator, or the error of the read
\* (IOError for a file, DownloadError for a URL), of json.loads, or of the
\* check of the schema.
LoadOutcomes == {"", "unreadable", "JSONDecodeError", "SchemaError"}

ReadError(kind) == IF kind = "file" THEN "IOError" ELSE "DownloadError"

\* Cache.has, Cache.get, Cache.put
CacheHas(cache, key) ==
    key \in DOMAIN cache
CacheGet(cache, key) == cache[key]
CachePut(cache, key, value) ==
    [k \in DOMAIN cache \cup {key} |-> IF k = key THEN value ELSE cache[k]]

\* A plausible slip: the validator is built and returned, cache.put is
\* forgotten.
FromCacheWithoutPut(kind, cache, key, loading, fresh) ==
    IF CacheHas(cache, key)
    THEN [cache |-> cache, hit |-> TRUE, exc |-> "",
          validator |-> CacheGet(cache, key)]
    ELSE IF loading # ""
    THEN [cache |-> cache, hit |-> FALSE,
          exc |-> IF loading = "unreadable" THEN ReadError(kind) ELSE loading,
          validator |-> 0]
    ELSE [cache |-> cache, hit |-> FALSE, exc |-> "", validator |-> fresh]

\* The body from_file and from_remote share: the validator of the cache
\* when it has the key, else the one from_buffer makes of what was read,
\* put in the cache; an error of the read or of from_buffer leaves before
\* cache.put.
FromCache(kind, cache, key, loading, fresh) ==
    IF CacheHas(cache, key)
    THEN [cache |-> cache, hit |-> TRUE, exc |-> "",
          validator |-> CacheGet(cache, key)]
    ELSE IF loading # ""
    THEN [cache |-> cache, hit |-> FALSE,
          exc |-> IF loading = "unreadable" THEN ReadError(kind) ELSE loading,
          validator |-> 0]
    ELSE [cache |-> CachePut(cache, key, fresh), hit |-> FALSE, exc |-> "",
          validator |-> fresh]

\* JSONValidatorFactory(): Caches() makes two caches of its own.
NewFactory == [files |-> EmptyMap, remotes |-> EmptyMap, log |-> <<>>]

\* Validators are told apart by the order they were made in.
FreshValidator ==
    1 + Cardinality({ i \in 1..Len(factory.log) :
                        ~factory.log[i].hit /\ factory.log[i].exc = "" })

LoggedCall(kind, key, made) ==
    Append(factory.log,
           [kind |-> kind, key |-> key, hit |-> made.hit, exc |-> made.exc,
            validator |-> made.validator])

\* from_file(file)
FromSchemaFile(file, loading) ==
    LET made == FromCache("file", factory.files, file, loading,
                          FreshValidator)
    IN  /\ Len(factory.log) < MaxRequests
        /\ CacheHas(factory.files, file) => loading = ""
        /\ factory' = [factory EXCEPT !.files = made.cache,
                                      !.log = LoggedCall("file", file, made)]
        /\ UNCHANGED besideFactory

\* from_remote(url)
FromRemote(url, loading) ==
    LET made == FromCache("remote", factory.remotes, url, loading,
                          FreshValidator)
    IN  /\ Len(factory.log) < MaxRequests
        /\ CacheHas(factory.remotes, url) => loading = ""
        /\ factory' = [factory EXCEPT !.remotes = made.cache,
                                      !.log = LoggedCall("remote", url, made)]
        /\ UNCHANGED besideFactory

IdleFactory == factory = NewFactory

----------------------------------------------------------------------------
(* Specifications *)

IdleHttp ==
    /\ request = IdleRequest
    /\ outcome = IdleOutcome
    /\ calls = <<>>

IdleWalk ==
    /\ zuul = [j \in Jobs |-> NotFound]
    /\ self = IdleSelf
    /\ recursive = FALSE
    /\ stack = <<>>
    /\ pc = "idle"
    /\ result = EmptyMap

IdleFacade ==
    /\ host = IdleHost
    /\ held = NoHandle
    /\ listing = <<>>
    /\ op = IdleOp

IdleEq ==
    /\ handles = <<>>
    /\ eq = <<>>

IdleQuery ==
    /\ kwargs = IdleKwargs
    /\ query = IdleQueryState
    /\ tree = <<>>

IdlePrint ==
    /\ model = IdleModel
    /\ printed = <<>>

InitSession ==
    /\ IdleHttp /\ IdleWalk /\ IdleFacade /\ IdleEq /\ IdleQuery /\ IdlePrint
    /\ IdleSource /\ IdleFilter /\ IdleMerge /\ IdleInterp /\ IdleDownloadState
    /\ IdleSearch
    /\ IdleRender
    /\ IdleCli
    /\ IdleJobInfo
    /\ IdleFactory

NextSession ==
    \E s \in Services, c \in StatusCodes, j \in BOOLEAN, b \in Bodies :
        Get(s, c, j, b)

SpecSession == InitSession /\ [][NextSession]_vars

InitVariables ==
    /\ IdleHttp
    /\ zuul \in Hosts
    /\ self = IdleSelf
    /\ recursive = FALSE
    /\ stack = <<>>
    /\ pc = "idle"
    /\ result = EmptyMap
    /\ IdleFacade
    /\ IdleEq
    /\ IdleQuery
    /\ IdlePrint
    /\ IdleSource
    /\ IdleFilter
    /\ IdleMerge
    /\ IdleInterp
    /\ IdleDownloadState
    /\ IdleSearch
    /\ IdleRender
    /\ IdleCli
    /\ IdleJobInfo
    /\ IdleFactory

NextVariables ==
    \/ \E j \in Jobs, i \in 1..2, rec \in BOOLEAN : Variables(j, i, rec)
    \/ FetchParent
    \/ Descend
    \/ Return

SpecVariables == InitVariables /\ [][NextVariables]_vars

\* A call that was made runs on: the interpreter takes the next step of the
\* walk whenever there is one.
SpecVariablesFair ==
    SpecVariables /\ WF_vars(FetchParent \/ Descend \/ Return)

----------------------------------------------------------------------------
(* Properties of ZuulVariantRESTClient.variables *)

\* The variants from raw up its parent chain, nearest first, as long as
\* every parent is known to the host and has exactly one variant.
RECURSIVE ParentChain(_, _)
ParentChain(raw, fuel) ==
    IF \/ fuel = 0
       \/ raw.parent = ""
       \/ zuul[raw.parent].status_code # 200
       \/ Len(zuul[raw.parent].variants) # 1
    THEN <<raw>>
    ELSE <<raw>> \o ParentChain(zuul[raw.parent].variants[1], fuel - 1)

SelfChain == ParentChain(self, Cardinality(Jobs))

\* The chain of self ends, within the host's jobs, at a variant with no parent.
LinearChain == SelfChain[Len(SelfChain)].parent = ""

Definers(chain, k) == { i \in 1..Len(chain) : k \in DOMAIN chain[i].variables }

Nearest(chain, k) ==
    CHOOSE i \in Definers(chain, k) : \A o \in Definers(chain, k) : i <= o

NearestWins(chain) ==
    [k \in { q \in Keys : Definers(chain, q) # {} } |->
        chain[Nearest(chain, k)].variables[k]]

\* The chain A->B->C of the example: C {x:1}, B {x:2, y:3}, A {y:4}.
ExampleHost ==
    [j \in Jobs |->
        IF j = "A"
        THEN Found(<<[name |-> "A", parent |-> "B",
                      variables |-> [k \in {"y"} |-> 4]]>>)
        ELSE IF j = "B"
        THEN Found(<<[name |-> "B", parent |-> "C",
                      variables |-> [k \in {"x", "y"} |-> IF k = "x" THEN 2 ELSE 3]]>>)
        ELSE Found(<<[name |-> "C", parent |-> "",
                      variables |-> [k \in {"x"} |-> 1]]>>)]

\* C1: variables(recursive=True) gives every key the value of the definition
\* closest to the queried variant (own over parent's, parent's over
\* grandparent's); on the example chain A->B->C the result on A is
\* {x: 2, y: 4}.
C1_NearestDefinitionWins ==
    (pc = "done" /\ recursive) =>
        /\ \A k \in DOMAIN self.variables :
              k \in DOMAIN result /\ result[k] = self.variables[k]
        /\ LinearChain => result = NearestWins(SelfChain)
        /\ (zuul = ExampleHost /\ self.name = "A") =>
              result = [k \in {"x", "y"} |-> IF k = "x" THEN 2 ELSE 4]

\* C6: a parent the host does not know (404) ends the chain; the recursive
\* walk raises nothing.
C6_UnresolvedParentEndsChain ==
    (recursive /\ request.status_code = 404) => pc # "raised"

\* C10: variables(recursive=False) returns exactly the variant's own
\* mapping, asks the facade nothing and leaves the variant's raw data as the
\* host sent it.
C10_OwnVariablesOnly ==
    (pc = "done" /\ ~recursive) =>
        /\ result = self.variables
        /\ calls = <<>>
        /\ \E i \in 1..Len(zuul[self.name].variants) :
              zuul[self.name].variants[i] = self

C10_Witness ==
    /\ pc = "done"
    /\ ~recursive
    /\ self.parent # ""
    /\ zuul[self.parent].status_code = 200
    /\ self.variables # EmptyMap
    /\ zuul[self.parent].variants[1].variables # EmptyMap

\* The parents named by the variants of the jobs of S the host knows.
ParentsOf(S) ==
    { p \in Jobs :
        \E j \in S : /\ zuul[j].status_code = 200
                      /\ \E i \in 1..Len(zuul[j].variants) :
                            zuul[j].variants[i].parent = p }

RECURSIVE Ancestors(_, _)
Ancestors(S, fuel) ==
    IF fuel = 0 THEN S ELSE Ancestors(S \cup ParentsOf(S), fuel - 1)

\* The jobs the parent relation reaches from the variant of the call.
OnTheChain == Ancestors({self.parent} \cap Jobs, Cardinality(Jobs))

\* A job on the chain names itself or one of its descendants as parent.
CyclicChain ==
    \E j \in OnTheChain : j \in Ancestors(ParentsOf({j}), Cardinality(Jobs))

\* The host knows every job on the chain.
ResolvableChain == \A j \in OnTheChain : zuul[j].status_code = 200

----------------------------------------------------------------------------
(* Properties of ZuulSession.get *)

\* C5 as stated: the JSON body for a 2xx response, ZuulAPIError with the
\* message of its code for every other status code.
C5_EveryNon2xxRaises ==
    request.service # "" =>
        LET code == request.status_code
        IN  IF code >= 200 /\ code < 300
            THEN request.is_json =>
                    ~outcome.exc.raised /\ outcome.value = request.body
            ELSE /\ outcome.exc.raised
                 /\ outcome.exc.type = "ZuulAPIError"

\* C5 amended: ZuulAPIError, with the message of its code, for every 4xx and
\* 5xx status code and for no other; any other response is decoded and its
\* JSON body returned.
C5_ErrorCodesRaise ==
    request.service # "" =>
        LET code == request.status_code
        IN  IF code >= 400 /\ code < 600
            THEN /\ outcome.exc.raised
                 /\ outcome.exc.type = "ZuulAPIError"
                 /\ code = 401 => outcome.exc.msg = "unauthorized"
                 /\ code = 403 => outcome.exc.msg = "insufficient privileges"
                 /\ code = 404 => outcome.exc.msg = "resource not found"
                 /\ code \notin {401, 403, 404} =>
                       outcome.exc.msg = "unknown error code, wait and try again"
            ELSE /\ outcome.exc.type # "ZuulAPIError"
                 /\ request.is_json =>
                       ~outcome.exc.raised /\ outcome.value = request.body

C5_Witness ==
    /\ request.status_code = 403
    /\ outcome.exc.type = "ZuulAPIError"
    /\ outcome.exc.msg = "insufficient privileges"

InitFacade ==
    /\ IdleHttp
    /\ IdleWalk
    /\ host \in FacadeHosts
    /\ held = RootClient
    /\ listing = <<>>
    /\ op = IdleOp
    /\ IdleEq
    /\ IdleQuery
    /\ IdlePrint
    /\ IdleSource
    /\ IdleFilter
    /\ IdleMerge
    /\ IdleInterp
    /\ IdleDownloadState
    /\ IdleSearch
    /\ IdleRender
    /\ IdleCli
    /\ IdleJobInfo
    /\ IdleFactory

NextFacade ==
    \/ \E code \in AnswerCodes : Tenants(code)
    \/ \E code \in AnswerCodes : TenantProjects(code)
    \/ \E code \in AnswerCodes : TenantJobs(code)
    \/ \E code \in AnswerCodes : TenantBuilds(code)
    \/ \E code \in AnswerCodes : ProjectPipelines(code)
    \/ PipelineJobs
    \/ \E code \in AnswerCodes : JobVariants(code)
    \/ \E code \in AnswerCodes : JobBuilds(code)
    \/ BuildTests
    \/ \E i \in 1..4 : Take(i)

SpecFacade == InitFacade /\ [][NextFacade]_vars

InitEq ==
    /\ IdleHttp /\ IdleWalk /\ IdleFacade /\ IdleEq /\ IdleQuery /\ IdlePrint
    /\ IdleSource /\ IdleFilter /\ IdleMerge /\ IdleInterp /\ IdleDownloadState
    /\ IdleSearch
    /\ IdleRender
    /\ IdleCli
    /\ IdleJobInfo
    /\ IdleFactory

NextEq ==
    /\ handles = <<>>
    /\ \E a \in SomeHandles, b \in SomeHandles, c \in SomeHandles :
          Compare(a, b, c)

SpecEq == InitEq /\ [][NextEq]_vars

InitQuery ==
    /\ IdleHttp
    /\ zuul \in QueryHosts
    /\ self = IdleSelf
    /\ recursive = FALSE
    /\ stack = <<>>
    /\ pc = "idle"
    /\ result = EmptyMap
    /\ IdleFacade
    /\ IdleEq
    /\ IdleQuery
    /\ IdlePrint
    /\ IdleSource
    /\ IdleFilter
    /\ IdleMerge
    /\ IdleInterp
    /\ IdleDownloadState
    /\ IdleSearch
    /\ IdleRender
    /\ IdleCli
    /\ IdleJobInfo
    /\ IdleFactory

NextQuery ==
    \/ \E value \in FilterValues, projects \in OtherValues,
          code \in AnswerCodes :
             WithJobsQuery(value, projects, code)
    \/ \E code \in AnswerCodes : NextJob(code)
    \/ NextVariant
    \/ \E failure \in Failures : Crawl(failure)
    \/ Delegate

SpecQuery == InitQuery /\ [][NextQuery]_vars

InitPrint ==
    /\ IdleHttp /\ IdleWalk /\ IdleFacade /\ IdleEq /\ IdleQuery /\ IdlePrint
    /\ IdleSource /\ IdleFilter /\ IdleMerge /\ IdleInterp /\ IdleDownloadState
    /\ IdleSearch
    /\ IdleRender
    /\ IdleCli
    /\ IdleJobInfo
    /\ IdleFactory

NextPrint ==
    /\ model = IdleModel
    /\ \E q \in QueryTypes, p \in ProjectNames, x \in TriggerNames,
          builds \in BuildLists :
          PrintJob(q, [name |-> p], [name |-> x], [name |-> "J", builds |-> builds])

SpecPrint == InitPrint /\ [][NextPrint]_vars

----------------------------------------------------------------------------
(* Properties of HierarchyQuery.with_jobs_query *)

VariantsServices == { JobVariantsService(j) : j \in Jobs }

\* C2: a JOBS query through with_jobs_query asks no job for its variants and
\* returns a result without variants.
C2_JobsQueryStopsAtJobs ==
    query.pc # "idle" =>
        /\ \A i \in 1..Len(calls) : calls[i] \notin VariantsServices
        /\ \A i \in 1..Len(tree) : tree[i].variants = <<>>

\* The names of the jobs above a variant: its parent, the parent of the
\* parent's first variant, and so on while the host knows them.
RECURSIVE AncestorNames(_, _)
AncestorNames(raw, fuel) ==
    IF \/ fuel = 0
       \/ raw.parent = ""
       \/ zuul[raw.parent].status_code # 200
       \/ zuul[raw.parent].variants = <<>>
    THEN {}
    ELSE {raw.parent}
         \cup AncestorNames(zuul[raw.parent].variants[1], fuel - 1)

\* C3: when the query is delegated, the jobs filter holds '^N$' for every
\* ancestor N of every variant of every job the original filter selected.
C3_FilterHoldsAncestors ==
    query.pc = "done" =>
        \A j \in Jobs :
            (/\ zuul[j].status_code = 200
             /\ Matched(query.original, <<j>>) # <<>>) =>
                \A i \in 1..Len(zuul[j].variants) :
                    \A n \in AncestorNames(zuul[j].variants[i], Cardinality(Jobs)) \ {j} :
                        \E k \in 1..Len(kwargs.jobs) : kwargs.jobs[k] = Anchored(n)

C3_Witness ==
    /\ query.pc = "done"
    /\ query.original = <<"^A$">>
    /\ Len(zuul["A"].variants) = 2
    /\ \E k \in 1..Len(kwargs.jobs) : kwargs.jobs[k] = "^B$"
    /\ \E k \in 1..Len(kwargs.jobs) : kwargs.jobs[k] = "^C$"
    /\ \E i \in 1..Len(tree) : tree[i].name = "C"

\* C25: the expansion only adds to the jobs filter: the entries it had
\* when the call was made are still its first entries, in their order,
\* every entry after them is '^N$' for a job name N, and the other
\* criteria of the call are as they were.
C25_ExpansionOnlyAdds ==
    query.pc # "idle" =>
        LET before == query.given.jobs
            after == kwargs.jobs
        IN  /\ Len(after) >= Len(before)
            /\ SubSeq(after, 1, Len(before)) = before
            /\ \A k \in (Len(before) + 1)..Len(after) :
                  \E n \in Jobs : after[k] = Anchored(n)
            /\ DOMAIN kwargs = DOMAIN query.given
            /\ kwargs.projects = query.given.projects

C25_Witness ==
    /\ query.pc = "done"
    /\ query.given = [jobs |-> <<"^C$", "^A$">>, projects |-> <<"^P1$">>]
    /\ Len(kwargs.jobs) = 4
    /\ kwargs.jobs[3] = "^B$"
    /\ kwargs.jobs[4] = "^C$"

\* A step of the expansion that asks the facade: the jobs listing, the
\* variants listing of a job, or one level of a crawl.
FacadeCallOfExpansion ==
    \/ query.pc = "idle" /\ query'.pc # "idle"
    \/ /\ query.pc \in {"job", "crawl"}
       /\ calls' = Append(calls, request'.service)

\* The crawler takes a parent the host does not know for the end of the
\* chain.
UnresolvedParent == query.pc = "crawl" /\ request'.status_code = 404

\* C26: the first facade call of the expansion that raises ends the query:
\* the error is the outcome of the call, the jobs and variants left are not
\* visited (no step follows), the delegate is not started and the output
\* stays empty.
C26_FirstFacadeErrorAbortsQuery ==
    [][ /\ query.pc # "raised"
        /\ (FacadeCallOfExpansion /\ outcome'.exc.raised
               /\ ~UnresolvedParent) => query'.pc = "raised"
        /\ query'.pc = "raised" =>
              /\ outcome'.exc.raised
              /\ tree' = <<>>
              /\ query'.delegate = ""
              /\ query'.jobs = query.jobs
              /\ query'.variants = query.variants
              /\ kwargs' = kwargs \/ query.pc = "idle" ]_vars

C26_Witness ==
    /\ query.pc = "raised"
    /\ outcome.exc.raised
    /\ request.service = JobVariantsService("B")
    /\ query.variant.name = "A"
    /\ query.jobs # <<>>
    /\ query.variants # <<>>
    /\ tree = <<>>

----------------------------------------------------------------------------
(* Properties of ColoredZuulSystemPrinter.ProjectCascade._print_job *)

\* C4: the builds printed under job J of pipeline X of project P are, in
\* the job's order, those whose project is P and whose pipeline is X, and
\* none at all unless the query is BUILDS or deeper.
C4_OnlyBuildsOfProjectAndPipeline ==
    model # IdleModel =>
        LET builds == model.job.builds
            mine == { i \in 1..Len(builds) :
                        /\ builds[i].project = model.project.name
                        /\ builds[i].pipeline = model.pipeline.name }
        IN  /\ printed # <<>> => model.query \in {"BUILDS", "TESTS"}
            /\ model.query \in {"BUILDS", "TESTS"} =>
                  /\ { printed[k] : k \in 1..Len(printed) } = mine
                  /\ Len(printed) = Cardinality(mine)
                  /\ \A k \in 1..Len(printed) - 1 : printed[k] < printed[k + 1]

C4_Witness ==
    /\ model.query = "BUILDS"
    /\ model.project.name = "P1"
    /\ model.pipeline.name = "X"
    /\ \E i \in 1..Len(model.job.builds) :
          /\ model.job.builds[i].project = "P2"
          /\ model.job.builds[i].pipeline = "X"
    /\ Len(printed) = 1

----------------------------------------------------------------------------
(* Properties of the handles and the child listings *)

SameParent(a, b) ==
    IF a.kind = "pipeline"
    THEN /\ a.parent.parent = b.parent.parent
         /\ a.parent.name = b.parent.name
    ELSE a.parent = b.parent

\* C7: two job, project or pipeline handles are equal exactly when their
\* parents are equal and their names are equal; handles of two capabilities
\* are never equal; equality is reflexive, symmetric and transitive.
C7_EqualityIsParentAndName ==
    handles # <<>> =>
        /\ \A i, j \in 1..3 :
              LET a == handles[i]
                  b == handles[j]
              IN  /\ a.kind # b.kind => ~eq[i][j]
                  /\ (a.kind = b.kind /\ a.kind \in {"job", "project", "pipeline"}) =>
                        (eq[i][j] <=> (SameParent(a, b) /\ a.name = b.name))
                  /\ eq[i][j] = eq[j][i]
        /\ \A i \in 1..3 : eq[i][i]
        /\ (eq[1][2] /\ eq[2][3]) => eq[1][3]

C7_Witness ==
    /\ handles # <<>>
    /\ handles[1].kind = "job"
    /\ handles[2].kind = "job"
    /\ handles[1].session # handles[2].session
    /\ handles[1].raw # handles[2].raw
    /\ eq[1][2]
    /\ handles[3].kind = "project"
    /\ handles[3].name = handles[1].name
    /\ ~eq[1][3]

ListingNames ==
    {"tenants", "tenant.projects", "tenant.jobs", "tenant.builds",
     "project.pipelines", "pipeline.jobs", "job.variants", "job.builds"}

\* C8 as stated: every child listing makes exactly one ZuulSession.get call.
C8_OneCallPerListing ==
    op.name \in ListingNames => Len(calls) = 1

\* C8 amended: every child listing makes exactly one ZuulSession.get call,
\* but pipeline.jobs, which makes none.
C8_OneCallButPipelineJobs ==
    op.name \in ListingNames =>
        Len(calls) = IF op.name = "pipeline.jobs" THEN 0 ELSE 1

C8_Witness ==
    /\ op.name = "project.pipelines"
    /\ ~op.raised
    /\ Len(host.project.configs) = 2
    /\ Len(listing) = 4
    /\ Len(calls) = 1

\* C9: a child listing never returns two handles that compare equal.
C9_NoEqualSiblings ==
    (op.name \in ListingNames \ {"tenant.builds"}) =>
        \A i, j \in 1..Len(listing) :
            i # j => ~HandleEq(listing[i], listing[j])

\* C11: ZuulBuildRESTClient.tests() returns the empty list for every build,
\* whatever the host served before, asks the host nothing and does not
\* raise.
C11_BuildTestsIsEmpty ==
    op.name = "build.tests" =>
        /\ held.kind = "build"
        /\ listing = <<>>
        /\ calls = <<>>
        /\ ~op.raised

C11_Witness ==
    /\ op.name = "build.tests"
    /\ held.kind = "build"
    /\ held.raw.uuid = "b3"
    /\ held.parent.name = "j1"
    /\ listing = <<>>

----------------------------------------------------------------------------
(* Source.get_source_method: specification and properties *)

InitSource ==
    /\ IdleHttp /\ IdleWalk /\ IdleFacade /\ IdleEq /\ IdleQuery /\ IdlePrint
    /\ IdleSource /\ IdleFilter /\ IdleMerge /\ IdleInterp /\ IdleDownloadState
    /\ IdleSearch
    /\ IdleRender
    /\ IdleCli
    /\ IdleJobInfo
    /\ IdleFactory

NextSource ==
    /\ lookup = IdleLookup
    /\ \E system_name \in SystemNames, sources \in SourceLists,
          func_name \in FuncNames :
          GetSourceMethod(system_name, sources, func_name)

SpecSource == InitSource /\ [][NextSource]_vars

\* The positions of the sources that have the attribute.
Holders(sources, func_name) ==
    { i \in 1..Len(sources) : func_name \in sources[i].attrs }

\* C12: get_source_method returns the method of the single source that has
\* the attribute func_name; with no such source it raises
\* NoSupportedSourcesFound, with more than one TooManyValidSources, and in
\* both error cases it returns no method.
C12_SingleSourceOrError ==
    lookup # IdleLookup =>
        LET holders == Holders(lookup.sources, lookup.func_name)
        IN  /\ Cardinality(holders) = 1 =>
                  /\ lookup.exc = NoError
                  /\ lookup.method.source \in holders
                  /\ lookup.method.name = lookup.func_name
            /\ Cardinality(holders) = 0 =>
                  /\ lookup.exc.type = "NoSupportedSourcesFound"
                  /\ lookup.method = NoMethod
            /\ Cardinality(holders) > 1 =>
                  /\ lookup.exc.type = "TooManyValidSources"
                  /\ lookup.method = NoMethod

C12_Witness ==
    /\ Len(lookup.sources) = 3
    /\ lookup.func_name = "get_builds"
    /\ Holders(lookup.sources, lookup.func_name) = {1, 3}
    /\ lookup.exc.type = "TooManyValidSources"
    /\ lookup.method = NoMethod

----------------------------------------------------------------------------
(* The filters: specification and properties *)

InitFilter ==
    /\ IdleHttp /\ IdleWalk /\ IdleFacade /\ IdleEq /\ IdleQuery /\ IdlePrint
    /\ IdleSource
    /\ \E j \in FilterJobs, u \in UserInputs :
          filtering = [job |-> j, original |-> j, user_input |-> u, log |-> <<>>]
    /\ IdleMerge
    /\ IdleInterp
    /\ IdleDownloadState
    /\ IdleSearch
    /\ IdleRender
    /\ IdleCli
    /\ IdleJobInfo
    /\ IdleFactory

NextFilter ==
    \/ \E f \in {"services"} : FilterModelsByName(f)
    \/ \E f \in {"packages"} : FilterNodes(f)

SpecFilter == InitFilter /\ [][NextFilter]_vars

\* What a filter looks at in the job.
FilteredPart(name, j) ==
    IF name = "filter_models_by_name" THEN j.services ELSE j.nodes

\* C13: a filter applied again with the same input leaves the part of the
\* job it filters, and its keep/drop verdict, as they were after its first
\* application.
C13_FilteringIsIdempotent ==
    \A i, k \in 1..Len(filtering.log) :
        LET first == filtering.log[i]
            again == filtering.log[k]
        IN  (i < k /\ first.filter = again.filter) =>
                /\ again.verdict = first.verdict
                /\ FilteredPart(again.filter, again.job)
                      = FilteredPart(first.filter, first.job)

C13_Witness ==
    /\ Len(filtering.log) = 3
    /\ filtering.log[1].filter = "filter_nodes"
    /\ filtering.log[2].filter = "filter_models_by_name"
    /\ filtering.log[3].filter = "filter_nodes"
    /\ filtering.user_input = <<"b", "c">>
    /\ DOMAIN filtering.original.services = {"a", "b"}
    /\ DOMAIN filtering.job.services = {"b"}
    /\ DOMAIN filtering.original.nodes["n1"].packages = {"a"}
    /\ DOMAIN filtering.original.nodes["n2"].packages = {"a", "b"}
    /\ DOMAIN filtering.job.nodes["n2"].packages = {"b"}
    /\ filtering.log[3].verdict

----------------------------------------------------------------------------
(* The merge: specification and properties *)

InitMerge ==
    /\ IdleHttp /\ IdleWalk /\ IdleFacade /\ IdleEq /\ IdleQuery /\ IdlePrint
    /\ IdleSource /\ IdleFilter
    /\ system \in JobTrees
    /\ deployment \in DeploymentViews
    /\ merged = NothingMerged(system, deployment)
    /\ IdleInterp
    /\ IdleDownloadState
    /\ IdleSearch
    /\ IdleRender
    /\ IdleCli
    /\ IdleJobInfo
    /\ IdleFactory

NextMerge ==
    \E subtree \in Subtrees : Merge(subtree)

SpecMerge == InitMerge /\ [][NextMerge]_vars

\* The rule of one field: set and nothing set coming in, it stays; unset, it
\* takes what comes in.
FieldRule(mine, other, after) ==
    /\ (mine # Unset /\ other = Unset) => after = mine
    /\ mine = Unset => after = other

\* The item of the list that has the key, under the name of the key field.
BuildOf(builds, id) ==
    builds[CHOOSE i \in 1..Len(builds) : builds[i].build_id = id]

Named(items, name) ==
    items[CHOOSE i \in 1..Len(items) : items[i].name = name]

BuildIds(builds) == { builds[i].build_id : i \in 1..Len(builds) }

NamesOf(items) == { items[i].name : i \in 1..Len(items) }

\* The rule of the build list of one job.
BuildsRule(mine, other, after) ==
    /\ mine = <<>> => after = other
    /\ other = <<>> => after = mine
    /\ Len(after) = Cardinality(BuildIds(mine) \cup BuildIds(other))
    /\ BuildIds(after) = BuildIds(mine) \cup BuildIds(other)
    /\ \A id \in BuildIds(mine) \cap BuildIds(other) :
          /\ FieldRule(BuildOf(mine, id).status, BuildOf(other, id).status,
                       BuildOf(after, id).status)
          /\ BuildOf(mine, id).tests = <<>> =>
                BuildOf(after, id).tests = BuildOf(other, id).tests
          /\ BuildOf(other, id).tests = <<>> =>
                BuildOf(after, id).tests = BuildOf(mine, id).tests

\* C14: merging a view into the tree leaves one node per name; on the node
\* the view is of, a field already set keeps its value when the incoming
\* one is unset or empty, and an unset or empty field takes the incoming
\* value: a job with no builds merged with a view of it with builds [b1]
\* ends with builds [b1], whichever of the two came first, and a deployment
\* without nodes, services or ip_version merged with a populated one ends
\* populated.
C14_MergeKeepsAndFills ==
    merged.count = 1 =>
        LET view == merged.subtree
            old == merged.before
        IN  IF view.kind = "job"
            THEN /\ NamesOf(system) = NamesOf(old.system) \cup {view.job.name}
                 /\ Len(system) = Cardinality(NamesOf(system))
                 /\ \A n \in NamesOf(old.system) \ {view.job.name} :
                       Named(system, n) = Named(old.system, n)
                 /\ view.job.name \notin NamesOf(old.system) =>
                       Named(system, view.job.name) = view.job
                 /\ view.job.name \in NamesOf(old.system) =>
                       LET mine == Named(old.system, view.job.name)
                           after == Named(system, view.job.name)
                       IN  /\ FieldRule(mine.url, view.job.url, after.url)
                           /\ BuildsRule(mine.builds, view.job.builds,
                                         after.builds)
                 /\ deployment = old.deployment
            ELSE LET mine == old.deployment
                     other == view.deployment
                 IN  /\ FieldRule(mine.release, other.release,
                                  deployment.release)
                     /\ FieldRule(mine.ip_version, other.ip_version,
                                  deployment.ip_version)
                     /\ mine.nodes = <<>> => deployment.nodes = other.nodes
                     /\ other.nodes = <<>> => deployment.nodes = mine.nodes
                     /\ mine.services = <<>> =>
                           deployment.services = other.services
                     /\ other.services = <<>> =>
                           deployment.services = mine.services
                     /\ (mine.services # <<>> /\ other.services # <<>>) =>
                           /\ Len(deployment.services) = 1
                           /\ DOMAIN mine.services[1].configuration = {} =>
                                 deployment.services[1].configuration
                                     = other.services[1].configuration
                           /\ DOMAIN other.services[1].configuration = {} =>
                                 deployment.services[1].configuration
                                     = mine.services[1].configuration
                     /\ system = old.system

C14_Witness ==
    /\ merged.count = 1
    /\ merged.subtree.kind = "job"
    /\ merged.subtree.job.name = "job1"
    /\ merged.subtree.job.builds = <<>>
    /\ merged.subtree.job.url = "u1"
    /\ Len(merged.before.system) = 2
    /\ Named(merged.before.system, "job1").url = Unset
    /\ Len(Named(merged.before.system, "job1").builds) = 1
    /\ Len(system) = 2
    /\ Named(system, "job1").url = "u1"
    /\ Named(system, "job1").builds = Named(merged.before.system, "job1").builds

----------------------------------------------------------------------------
(* The file interpreters: specification and properties *)

InitInterp ==
    /\ IdleHttp /\ IdleWalk /\ IdleFacade /\ IdleEq /\ IdleQuery /\ IdlePrint
    /\ IdleSource /\ IdleFilter /\ IdleMerge
    /\ IdleInterp
    /\ IdleDownloadState
    /\ IdleSearch
    /\ IdleRender
    /\ IdleCli
    /\ IdleJobInfo
    /\ IdleFactory

\* The constructor of one kind of interpreter, over its files and overrides
\* and over what the validator rejects.
Construct(kind, files, dicts) ==
    \E data \in files, o \in {Omitted} \cup { Given(d) : d \in dicts } :
        \E rejected \in SUBSET {data, o.dict} :
            NewInterpreter(kind, data, o, rejected)

NextInterp ==
    \/ Construct("environment", EnvironmentData, EnvironmentData)
    \/ Construct("featureset", FeatureSetData, FeatureSetData)
    \/ Construct("nodes", NodesData, NodesData)
    \/ Construct("release", ReleaseData, ReleaseData)
    \/ Construct("scenario", ScenarioData, {EmptyMap})
    \/ GetIntraType
    \/ IsIpv6
    \/ GetScenario
    \/ GetReleaseName
    \/ GetTopology
    \/ GetCinderBackend
    \/ \E data \in ZuulDDocuments : \E rejected \in SUBSET {data} :
          ReaderData(data, rejected)

SpecInterp == InitInterp /\ [][NextInterp]_vars

\* The key every getter reads.
GetterKeys ==
    [get_intra_type |-> "environment_type", is_ipv6 |-> "overcloud_ipv6",
     get_scenario |-> "composable_scenario", get_release_name |-> "release",
     get_topology |-> "topology_map"]

\* C16: every getter returns the value of the overrides when they have the
\* key, also when the file has it too; else the value of the file when it
\* has the key; else its default: False for is_ipv6, None for the others
\* (get_topology returns the topology built from the value).
C16_OverridesThenFileThenDefault ==
    answer.op \in DOMAIN GetterKeys =>
        LET key == GetterKeys[answer.op]
            ValueOf(v) == IF answer.op = "get_topology"
                          THEN NewTopologyFrom(v) ELSE v
        IN  /\ answer.exc = NoError
            /\ key \in DOMAIN interp.overrides =>
                  answer.value = ValueOf(interp.overrides[key])
            /\ (key \notin DOMAIN interp.overrides
                    /\ key \in DOMAIN interp.data) =>
                  answer.value = ValueOf(interp.data[key])
            /\ (key \notin DOMAIN interp.overrides
                    /\ key \notin DOMAIN interp.data) =>
                  answer.value = IF answer.op = "is_ipv6" THEN FALSE ELSE None

C16_Witness ==
    /\ answer.op = "is_ipv6"
    /\ "overcloud_ipv6" \in DOMAIN interp.data
    /\ interp.data["overcloud_ipv6"] = TRUE
    /\ "overcloud_ipv6" \in DOMAIN interp.overrides
    /\ interp.overrides["overcloud_ipv6"] = FALSE
    /\ answer.value = FALSE

\* C17: data the validator rejects is never accepted: the constructor of an
\* interpreter raises IllegibleData and makes no interpreter when the data
\* or the overrides are rejected, and YAMLReader.data raises IllegibleData
\* instead of returning rejected data.
C17_RejectedDataIsNotAccepted ==
    /\ (answer.op = "__init__"
          /\ \E i \in 1..Len(answer.args) : answer.args[i] \in answer.rejected) =>
            /\ answer.exc.type = "IllegibleData"
            /\ interp = NoInterpreter
    /\ (answer.op = "YAMLReader.data" /\ answer.args[1] \in answer.rejected) =>
            /\ answer.exc.type = "IllegibleData"
            /\ answer.value = None

C17_Witness ==
    /\ answer.op = "__init__"
    /\ "composable_scenario" \in DOMAIN answer.args[1]
    /\ answer.args[1] \notin answer.rejected
    /\ "overcloud_ipv6" \in DOMAIN answer.args[2]
    /\ answer.args[2] \in answer.rejected
    /\ answer.exc.type = "IllegibleData"
    /\ interp = NoInterpreter

\* The backend keys of the scenario that are set to True.
EnabledBackends(data) ==
    { k \in DOMAIN CinderBackends \cap DOMAIN data : data[k] }

\* C18: get_cinder_backend returns the mapped name of the one backend key
\* that is present and True, whatever keys are present and False, and
\* 'iscsi' when no backend is enabled.
C18_EnabledBackendOrIscsi ==
    answer.op = "get_cinder_backend" =>
        LET enabled == EnabledBackends(interp.data)
        IN  /\ Cardinality(enabled) = 1 =>
                  /\ answer.exc = NoError
                  /\ answer.value = CinderBackends[CHOOSE k \in enabled : TRUE]
            /\ enabled = {} =>
                  /\ answer.exc = NoError
                  /\ answer.value = "iscsi"

\* C19: get_cinder_backend raises IllegibleData, and returns no backend,
\* whenever more than one backend is enabled.
C19_SeveralBackendsRaiseIllegibleData ==
    (answer.op = "get_cinder_backend"
        /\ Cardinality(EnabledBackends(interp.data)) > 1) =>
            /\ answer.exc.type = "IllegibleData"
            /\ answer.value = None

----------------------------------------------------------------------------
(* GitDownload.download_as_yaml: specification and properties *)

InitDownload ==
    /\ IdleHttp /\ IdleWalk /\ IdleFacade /\ IdleEq /\ IdleQuery /\ IdlePrint
    /\ IdleSource /\ IdleFilter /\ IdleMerge /\ IdleInterp
    /\ IdleDownloadState
    /\ IdleSearch
    /\ IdleRender
    /\ IdleCli
    /\ IdleJobInfo
    /\ IdleFactory

NextDownload ==
    \/ \E repo \in URLs, file \in FileNames, branch \in Branches :
          DownloadAsYaml(repo, file, branch)
    \/ \E got \in Downloads \cup GetAsTextFailures : TryApi(got)

SpecDownload == InitDownload /\ [][NextDownload]_vars

\* C20: the downloaders are invoked in the order the fetcher gave them, each
\* one only after all the ones before it raised DownloadError, none after
\* one that downloaded the file; the call gives up on the downloads only
\* after the last downloader, and what it returns is the parsed text of the
\* downloader that succeeded.
C20_FirstSuccessfulDownloaderWins ==
    LET n == Len(download.invoked)
    IN  /\ n <= Len(download.apis)
        /\ \A i \in 1..n : download.invoked[i].api = download.apis[i]
        /\ \A i \in 1..n :
              i < n => download.invoked[i].got.type = "DownloadError"
        /\ (download.pc = "done" /\ download.exc = NoError) =>
              /\ n >= 1
              /\ ~download.invoked[n].got.raised
              /\ ~AsYaml(download.invoked[n].got.text).raised
              /\ download.value = AsYaml(download.invoked[n].got.text).yaml
        /\ (download.pc = "done" /\ download.apis # <<>>
               /\ \A i \in 1..n :
                     download.invoked[i].got.type = "DownloadError") =>
              /\ n = Len(download.apis)
              /\ download.exc.type = "DownloadError"
        /\ [i \in 1..Len(download.apis) |-> download.apis[i].type]
              \in { <<>>, <<"GitCLIDownloader">>,
                    <<"GitHubDownloader", "GitCLIDownloader">> }

C20_Witness ==
    /\ download.pc = "done"
    /\ Len(download.apis) = 2
    /\ Len(download.invoked) = 2
    /\ download.invoked[1].api.type = "GitHubDownloader"
    /\ download.invoked[2].api.type = "GitCLIDownloader"
    /\ download.invoked[1].got.type = "DownloadError"
    /\ download.invoked[2].got.text = "release: zed"
    /\ download.exc = NoError
    /\ download.value = [release |-> "zed"]

\* C21: a call of download_as_yaml that fails raises DownloadError and
\* nothing else: for a URL no downloader supports, when every downloader
\* failed to download the file, and for a text that is not YAML (at once,
\* the downloaders left are not tried).
C21_EveryFailureIsDownloadError ==
    LET n == Len(download.invoked)
    IN  download.pc = "done" =>
           /\ download.exc.type \in {"", "DownloadError"}
           /\ download.apis = <<>> => download.exc.type = "DownloadError"
           /\ (n >= 1 /\ ~download.invoked[n].got.raised
                  /\ AsYaml(download.invoked[n].got.text).raised) =>
                 download.exc.type = "DownloadError"

\* C22: the downloaders the fetcher returns for a URL are none when it is
\* not a Git URL, the Git CLI one alone when it is a Git URL outside GitHub,
\* and the GitHub one followed by the Git CLI one when it is a GitHub URL;
\* each of them holds the URL and the branch that were asked for.
C22_DownloadersByPreference ==
    download.pc # "idle" =>
        LET url == CHOOSE u \in URLs : u.href = download.repo
            apis == download.apis
            types == [i \in 1..Len(apis) |-> apis[i].type]
        IN  /\ ~url.is_git => apis = <<>>
            /\ (url.is_git /\ ~url.is_github) =>
                  types = <<"GitCLIDownloader">>
            /\ (url.is_git /\ url.is_github) =>
                  types = <<"GitHubDownloader", "GitCLIDownloader">>
            /\ \A i \in 1..Len(apis) :
                  /\ apis[i].repository = download.repo
                  /\ apis[i].branch = download.branch

C22_Witness ==
    /\ download.pc = "loop"
    /\ download.repo = "https://github.com/org/repo.git"
    /\ download.branch = "stable/wallaby"
    /\ Len(download.apis) = 2
    /\ download.apis[1].type = "GitHubDownloader"
    /\ download.apis[2].branch = "stable/wallaby"

----------------------------------------------------------------------------
(* YAMLSearch.search: specification and properties *)

InitSearch ==
    /\ IdleHttp /\ IdleWalk /\ IdleFacade /\ IdleEq /\ IdleQuery /\ IdlePrint
    /\ IdleSource /\ IdleFilter /\ IdleMerge /\ IdleInterp
    /\ IdleDownloadState
    /\ IdleSearch
    /\ IdleRender
    /\ IdleCli
    /\ IdleJobInfo
    /\ IdleFactory

NextSearch ==
    \/ /\ search.pc = "idle"
       /\ \E dir \in Directories : Search(dir)
    \/ Visit

SpecSearch == InitSearch /\ [][NextSearch]_vars

\* The handles of the files of a directory that search() is to return.
ZuulDFilesOf(files) ==
    LET good == SelectSeq(files,
                   LAMBDA f : /\ Extension(f.path) \in {".yml", ".yaml"}
                              /\ f.meets_schema)
    IN  [i \in 1..Len(good) |->
            [type |-> "ZuulDFile", file |-> good[i].path]]

\* C23: search() returns one handle, in the order of the search, for each
\* .yml/.yaml file under the directory that meets the Zuul.D schema; a file
\* that raises YAMLError is left out, the search goes on and raises nothing.
C23_SearchSkipsUnmetSchema ==
    /\ search.exc = NoError
    /\ search.pc = "done" => search.result = ZuulDFilesOf(search.path)
    /\ search.pc = "loop" =>
          search.result =
             ZuulDFilesOf(SubSeq(search.finds, 1, search.pos - 1))

C23_Witness ==
    /\ search.pc = "done"
    /\ Len(search.path) = 3
    /\ search.path[1] = [path |-> "zuul.yaml", meets_schema |-> FALSE]
    /\ search.path[2].path = "README.txt"
    /\ search.path[3] = [path |-> "subdir/jobs.yml", meets_schema |-> TRUE]
    /\ search.result = <<[type |-> "ZuulDFile", file |-> "subdir/jobs.yml"]>>

----------------------------------------------------------------------------
(* print_system: specification and properties *)

InitRender ==
    /\ IdleHttp /\ IdleWalk /\ IdleFacade /\ IdleEq /\ IdleQuery /\ IdlePrint
    /\ IdleSource /\ IdleFilter /\ IdleMerge /\ IdleInterp
    /\ IdleDownloadState
    /\ IdleSearch
    /\ IdleRender
    /\ IdleCli
    /\ IdleJobInfo
    /\ IdleFactory

NextRender ==
    \/ /\ rendering = NothingRendered
       /\ \E q \in QueryTypes, sys \in ZuulSystems \cup JobsSystems :
             ColoredPrint(q, sys)
    \/ /\ rendering = NothingRendered
       /\ \E q \in QueryTypes, sys \in JobsSystems : SerializedPrint(q, sys)

SpecRender == InitRender /\ [][NextRender]_vars

\* C24: for a query type of the main chain, no entity of a level deeper
\* than the query type is in the text print_system gives, whatever the tree
\* holds.
C24_NothingBelowTheQueryType ==
    rendering.query \notin {"FEATURES", "FEATURES_JOBS"} =>
        \A i \in 1..Len(rendering.output) :
            QueryRank(rendering.output[i].level) <= QueryRank(rendering.query)

----------------------------------------------------------------------------
(* GitCLIDownloader.download_as_text: specification and properties *)

InitCli ==
    /\ IdleHttp /\ IdleWalk /\ IdleFacade /\ IdleEq /\ IdleQuery /\ IdlePrint
    /\ IdleSource /\ IdleFilter /\ IdleMerge /\ IdleInterp
    /\ IdleDownloadState
    /\ IdleSearch
    /\ IdleRender
    /\ cli \in { [dir |-> d, log |-> <<>>] :
                   d \in {NoDir, EmptyDir}
                         \cup { [exists |-> TRUE, holds |-> r] :
                                  r \in Repositories } }
    /\ IdleJobInfo
    /\ IdleFactory

NextCli ==
    /\ Len(cli.log) < MaxDownloads
    /\ \E repository \in Repositories, cloning \in CloneOutcomes :
          DownloadAsText(repository, cloning)

SpecCli == InitCli /\ [][NextCli]_vars

\* The downloads of the log that cloned the repository, the clone done.
Cloned ==
    { i \in 1..Len(cli.log) :
        cli.log[i].api = <<"clone">> /\ cli.log[i].got_repo }

\* C28: each download gets the repository by one call, api.clone when the
\* working directory is empty at that moment (created first when it was not
\* there) and api.open when it is not; so, a clone that succeeds leaving the
\* directory non-empty, at most one download of a sequence clones the
\* repository and each download after it opens what is there.
C28_ClonedAtMostOnce ==
    /\ \A i \in 1..Len(cli.log) :
          /\ Len(cli.log[i].api) = 1
          /\ cli.log[i].api[1] = (IF cli.log[i].empty THEN "clone" ELSE "open")
          /\ cli.log[i].created => cli.log[i].empty
    /\ Cardinality(Cloned) <= 1
    /\ \A i \in Cloned :
          \A j \in 1..Len(cli.log) : j > i => cli.log[j].api = <<"open">>
    /\ cli.log # <<>> => cli.dir.exists

C28_Witness ==
    /\ Len(cli.log) = 3
    /\ cli.log[1].created
    /\ cli.log[1].api = <<"clone">> /\ ~cli.log[1].got_repo
    /\ cli.log[2].api = <<"clone">> /\ cli.log[2].got_repo
    /\ cli.log[3].api = <<"open">> /\ cli.log[3].got_repo

----------------------------------------------------------------------------
(* Jenkins.add_job_info_from_name: specification and properties *)

InitJobInfo ==
    /\ IdleHttp /\ IdleWalk /\ IdleFacade /\ IdleEq /\ IdleQuery /\ IdlePrint
    /\ IdleSource /\ IdleFilter /\ IdleMerge /\ IdleInterp
    /\ IdleDownloadState
    /\ IdleSearch
    /\ IdleRender
    /\ IdleCli
    /\ jobinfo \in { [NoJobInfo EXCEPT !.before = job, !.after = job,
                                        !.kwargs = args] :
                       job \in JobsFromArtifacts, args \in ArgumentSets }
    /\ IdleFactory

NextJobInfo == AddJobInfoFromName

SpecJobInfo == InitJobInfo /\ [][NextJobInfo]_vars

\* A property the job holds with a non-empty value.
Held(job, property) == property \in DOMAIN job /\ job[property] # ""

\* The call leaves what the job held alone, name included.
KeepsWhatIsHeld ==
    /\ DOMAIN jobinfo.before \subseteq DOMAIN jobinfo.after
    /\ jobinfo.after["name"] = jobinfo.before["name"]
    /\ \A q \in NameProperties :
          Held(jobinfo.before, q) =>
              /\ q \notin jobinfo.written
              /\ jobinfo.after[q] = jobinfo.before[q]
    /\ \A q \in DOMAIN jobinfo.after \ jobinfo.written :
          q \in DOMAIN jobinfo.before
             /\ jobinfo.after[q] = jobinfo.before[q]

\* C29 as stated: a property is written only when it is missing or empty
\* and its own argument or 'spec' is among the arguments.
C29_WrittenOnlyWhenNamedOrSpec ==
    jobinfo.called =>
        /\ KeepsWhatIsHeld
        /\ \A q \in jobinfo.written :
              /\ ~Held(jobinfo.before, q)
              /\ q \in jobinfo.kwargs \/ "spec" \in jobinfo.kwargs

\* C29, amended: what the job held with a non-empty value is left as it
\* was, and a property is written only when it is missing or empty and was
\* asked for: by its own argument or by 'spec', and the topology also by
\* one of nodes, controllers, computes, packages and containers.
C29_WrittenOnlyWhenMissingAndAsked ==
    jobinfo.called =>
        /\ KeepsWhatIsHeld
        /\ \A q \in jobinfo.written :
              /\ ~Held(jobinfo.before, q)
              /\ \/ q \in jobinfo.kwargs
                 \/ "spec" \in jobinfo.kwargs
                 \/ q = "topology" /\ jobinfo.kwargs \cap NodeArguments # {}

C29_Witness ==
    /\ jobinfo.called
    /\ jobinfo.kwargs = {"spec"}
    /\ jobinfo.before["name"] = FullName
    /\ Held(jobinfo.before, "topology")
    /\ "dvr" \in DOMAIN jobinfo.before /\ jobinfo.before["dvr"] = ""
    /\ "release" \notin DOMAIN jobinfo.before
    /\ jobinfo.after["topology"] = "from artifacts"
    /\ jobinfo.after["dvr"] = "True"
    /\ jobinfo.after["release"] = "17.1"

----------------------------------------------------------------------------
(* JSONValidatorFactory: specification and properties *)

InitFactory ==
    /\ IdleHttp /\ IdleWalk /\ IdleFacade /\ IdleEq /\ IdleQuery /\ IdlePrint
    /\ IdleSource /\ IdleFilter /\ IdleMerge /\ IdleInterp
    /\ IdleDownloadState
    /\ IdleSearch
    /\ IdleRender
    /\ IdleCli
    /\ IdleJobInfo
    /\ IdleFactory

NextFactory ==
    \/ /\ Len(factory.log) < MaxRequests
       /\ \E file \in SchemaKeys, loading \in LoadOutcomes :
             FromSchemaFile(file, loading)
    \/ /\ Len(factory.log) < MaxRequests
       /\ \E url \in SchemaKeys, loading \in LoadOutcomes :
             FromRemote(url, loading)

SpecFactory == InitFactory /\ [][NextFactory]_vars

\* The calls of the log for one key of one cache, and those of them that
\* loaded the schema.
CallsFor(kind, key) ==
    { i \in 1..Len(factory.log) :
        factory.log[i].kind = kind /\ factory.log[i].key = key }

LoadsFor(kind, key) ==
    { i \in CallsFor(kind, key) :
        ~factory.log[i].hit /\ factory.log[i].exc = "" }

CacheFor(kind) == IF kind = "file" THEN factory.files ELSE factory.remotes

\* C30: for each file and each URL, at most one call loads the schema; the
\* calls after it load nothing and return the validator it made; a call
\* whose load fails returns nothing and leaves the key out of the cache;
\* and each cache holds exactly the keys loaded through its own method.
C30_LoadedOncePerKey ==
    \A kind \in {"file", "remote"}, key \in SchemaKeys :
        /\ Cardinality(LoadsFor(kind, key)) <= 1
        /\ \A i \in LoadsFor(kind, key), j \in CallsFor(kind, key) :
              /\ j > i =>
                    /\ factory.log[j].hit
                    /\ factory.log[j].validator = factory.log[i].validator
              /\ j < i => factory.log[j].exc # ""
        /\ \A j \in CallsFor(kind, key) :
              factory.log[j].exc # "" =>
                  /\ factory.log[j].validator = 0
                  /\ ~factory.log[j].hit
        /\ CacheHas(CacheFor(kind), key) <=> LoadsFor(kind, key) # {}
        /\ \A i \in LoadsFor(kind, key) :
              CacheGet(CacheFor(kind), key) = factory.log[i].validator

C30_Witness ==
    /\ Len(factory.log) = 4
    /\ factory.log[1].kind = "file" /\ factory.log[1].exc = "SchemaError"
    /\ factory.log[2].kind = "file" /\ factory.log[2].validator = 1
    /\ factory.log[3].kind = "remote" /\ factory.log[3].validator = 2
    /\ factory.log[4].kind = "file" /\ factory.log[4].hit
    /\ factory.log[4].validator = 1
    /\ \A i \in 1..4 : factory.log[i].key = "schemas/zuuld.json"

====
